---------------------------- MODULE Spec2Model ----------------------------
(***************************************************************************)
(* Tool-orchestration state machine of the Tokyo custom-map backend        *)
(* (backend/api.py, backend/services.py, backend/agent.py).                *)
(*                                                                         *)
(* Conventions of the model                                                *)
(*  - a Python dict is a TLA+ function on the set of its keys; a key whose *)
(*    value is None is left out of the domain (the code reads arguments    *)
(*    with dict.get, which does not tell the two apart);                   *)
(*  - radius_km is held in metres (radius_km * 1000) so that the factor    *)
(*    1.8 stays exact on the inputs used: 1.5 km is 1500;                  *)
(*  - latitude and longitude are held in units of 1e-7 degree;             *)
(*  - store ids are the decimal strings the code builds from the clock;    *)
(*  - texts produced by the language model are short ASCII tokens.         *)
(***************************************************************************)
EXTENDS Integers, Sequences, FiniteSets, TLC

VARIABLES
    STORE,        \* services.STORE: store_id -> [layers, meta]
    clock,        \* int(time.time() * 1000) at the last reading
    endpoint,     \* handler of the current request: "none", "query", "trip", "review"
    pc,           \* position inside the handler
    mode,         \* "search" or "trip"
    messages,     \* transcript of _run_agent_tool_chain
    nudge_used,   \* local of _run_agent_tool_chain
    step,         \* iterations of the MAX_TOOL_STEPS loop begun (model consultations)
    pending,      \* tool calls of the current model turn not yet executed
    args,         \* args / new_args of the handler
    last_result,  \* last_result of the handler
    last_reason,  \* last_reason of the handler
    validation,   \* validation of the handler
    attempt,      \* loop variable of the MAX_ITERS loop
    chain,        \* what _run_agent_tool_chain returned, or the tool that raised in it
    response,     \* what the handler returned (or the HTTP error it raised)
    lookup,       \* what the last map_geojson returned
    log           \* history: what the current request did, in order

vars == <<STORE, clock, endpoint, pc, mode, messages, nudge_used, step,
          pending, args, last_result, last_reason, validation, attempt, chain, response,
          lookup, log>>

-----------------------------------------------------------------------------
(* Bounds of the model *)

MaxClock == 2
MaxBatch == 2

(* Program constants *)

MAX_ITERS == 3
MAX_TOOL_STEPS == 6

None == "None"
EmptyDict == <<>>

-----------------------------------------------------------------------------
(* Python helpers *)

Min(a, b) == IF a <= b THEN a ELSE b
Max(a, b) == IF a >= b THEN a ELSE b

Has(d, k) == k \in DOMAIN d
GetOr(d, k, dflt) == IF k \in DOMAIN d THEN d[k] ELSE dflt
Put(d, k, v) == (k :> v) @@ d
Truthy(d, k) == IF k \in DOMAIN d THEN d[k] = TRUE ELSE FALSE

RECURSIVE SumOver(_, _)
SumOver(f, S) ==
    IF S = {} THEN 0
    ELSE LET k == CHOOSE k \in S : TRUE IN f[k] + SumOver(f, S \ {k})

-----------------------------------------------------------------------------
(* services.apply_range_defaults *)

RangeOf(a) ==
    LET r == GetOr(a, "range", "standard")
    IN IF r \in {"narrow", "standard", "wide"} THEN r ELSE "standard"

SearchRadiusDefault(r) == CASE r = "narrow" -> 1500 [] r = "standard" -> 3000 [] r = "wide" -> 8000
SearchLimitDefault(r) == CASE r = "narrow" -> 120 [] r = "standard" -> 200 [] r = "wide" -> 300
TripRadiusDefault(r) == CASE r = "narrow" -> 2500 [] r = "standard" -> 5000 [] r = "wide" -> 12000
TripLimitDefault(r) == CASE r = "narrow" -> 200 [] r = "standard" -> 300 [] r = "wide" -> 500
TripPerDayDefault(r) == CASE r = "narrow" -> 5 [] r = "standard" -> 6 [] r = "wide" -> 7

FillAlways(a, k, v) == Put(a, k, v)

FillNothing(a, k, v) == a

FillIfNone(a, k, v) == IF Has(a, k) THEN a ELSE Put(a, k, v)

apply_range_defaults(a, m) ==
    LET r == RangeOf(a)
    IN IF m = "search"
       THEN FillIfNone(FillIfNone(a, "radius_km", SearchRadiusDefault(r)),
                       "limit", SearchLimitDefault(r))
       ELSE IF m = "trip"
       THEN FillIfNone(FillIfNone(FillIfNone(a, "radius_km", TripRadiusDefault(r)),
                                  "limit", TripLimitDefault(r)),
                       "per_day", TripPerDayDefault(r))
       ELSE a

-----------------------------------------------------------------------------
(* services.revise_search_args, services.revise_trip_args *)

SEARCH_RADIUS_CAP == 15000
SEARCH_LIMIT_CAP == 500
TRIP_RADIUS_CAP == 20000
TRIP_LIMIT_CAP == 800

\* float(radius_km) * 1.8, with the cap left out
ReviseRadiusUncapped(a, cap, dflt) ==
    IF Has(a, "radius_km") THEN (a["radius_km"] * 18) \div 10 ELSE dflt

\* min(float(radius_km) * 1.8, cap), or the default when radius_km is None
ReviseRadius(a, cap, dflt) ==
    IF Has(a, "radius_km") THEN Min((a["radius_km"] * 18) \div 10, cap) ELSE dflt

\* min(int(limit) * 2, cap), or the default when limit is None
ReviseLimit(a, cap, dflt) ==
    IF Has(a, "limit") THEN Min(a["limit"] * 2, cap) ELSE dflt

\* a set flag cleared from attempt 1 on
ClearFlagEarly(a, k, att) == IF att >= 1 /\ Truthy(a, k) THEN Put(a, k, FALSE) ELSE a

\* from attempt 2 on, a set flag is cleared
ClearFlag(a, k, att) == IF att >= 2 /\ Truthy(a, k) THEN Put(a, k, FALSE) ELSE a

\* max(3, int(int(per_day) * 0.8)) from attempt 2 on
ShrinkPerDay(a, att) ==
    IF att >= 2 /\ Has(a, "per_day")
    THEN Put(a, "per_day", Max(3, (a["per_day"] * 8) \div 10))
    ELSE a

revise_search_args(a, att) ==
    LET a1 == Put(a, "radius_km", ReviseRadius(a, SEARCH_RADIUS_CAP, 3000))
        a2 == Put(a1, "limit", ReviseLimit(a, SEARCH_LIMIT_CAP, 300))
    IN ClearFlag(ClearFlag(a2, "open_24h", att), "wheelchair", att)

revise_trip_args(a, att) ==
    LET a1 == Put(a, "radius_km", ReviseRadius(a, TRIP_RADIUS_CAP, 5000))
        a2 == Put(a1, "limit", ReviseLimit(a, TRIP_LIMIT_CAP, 500))
    IN ShrinkPerDay(ClearFlag(ClearFlag(a2, "open_24h", att), "wheelchair", att), att)

-----------------------------------------------------------------------------
(* Taxonomy, backend answers and geocoding (the external collaborators) *)

\* keys of services.CATEGORY_MAP after load_taxonomy
CATEGORY_MAP == {"cafe", "park"}

\* the open data of the backend: per category, the elements in backend order.
\* dlat is the offset from the center of the model in 1e-7 degree (90000 is 1 km);
\* h24 and wc say whether the element passes the opening_hours and wheelchair filters
Place(dlat, nm, h24, wc) ==
    [row |-> [lat |-> 357000000 + dlat, lon |-> 1397000000, name |-> nm], h24 |-> h24, wc |-> wc]
Nameless(dlat, h24, wc) ==
    [row |-> [lat |-> 357000000 + dlat, lon |-> 1397000000], h24 |-> h24, wc |-> wc]

OpenData(c) ==
    CASE c = "cafe" ->
           << Place(360000, "D", FALSE, FALSE), Place(9000, "A", TRUE, TRUE),
              Place(90000, "B", TRUE, FALSE), Nameless(180000, FALSE, TRUE),
              Place(200004, "E", FALSE, FALSE), Place(200001, "E", FALSE, FALSE),
              Place(900000, "F", FALSE, FALSE) >>
      [] c = "park" ->
           << Place(90000, "B", TRUE, TRUE), Place(45000, "P", TRUE, TRUE),
              Place(45000, "A", FALSE, FALSE), Nameless(270000, FALSE, FALSE),
              Place(540000, "D", FALSE, FALSE), Place(720000, "E", FALSE, FALSE) >>
      [] OTHER -> <<>>

\* what geocode(place) answers with
Center == [lat |-> 357000000, lon |-> 1397000000]

\* lexicographic order of the names the model uses (str comparison of Python)
NameRank(nm) == CASE nm = "" -> 0 [] nm = "A" -> 1 [] nm = "B" -> 2 [] nm = "D" -> 3
                  [] nm = "E" -> 4 [] nm = "F" -> 5 [] nm = "P" -> 6 [] OTHER -> 7

\* round(x, 6) of a coordinate held in 1e-7 degree (ties to even)
Round6(x) ==
    LET q == x \div 10
        r == x % 10
    IN IF r < 5 THEN q ELSE IF r > 5 THEN q + 1 ELSE IF q % 2 = 0 THEN q ELSE q + 1

DedupKeyNoName(r) == << Round6(r["lat"]), Round6(r["lon"]) >>

\* the dedup key (round(lat, 6), round(lon, 6), name)
DedupKey(r) == << Round6(r["lat"]), Round6(r["lon"]), GetOr(r, "name", None) >>

RECURSIVE DedupFrom(_, _, _)
DedupFrom(rows, seen, uniq) ==
    IF rows = <<>> THEN uniq
    ELSE IF DedupKey(Head(rows)) \in seen
         THEN DedupFrom(Tail(rows), seen, uniq)
         ELSE DedupFrom(Tail(rows), seen \cup {DedupKey(Head(rows))}, Append(uniq, Head(rows)))

Dedup(rows) == DedupFrom(rows, {}, <<>>)

\* r.setdefault("layer", c) on every row
WithLayer(rows, c) == [i \in 1..Len(rows) |-> FillIfNone(rows[i], "layer", c)]

-----------------------------------------------------------------------------
(* A layers dict keeps its insertion order: a sequence of [label, rows] *)

LayerLabels(layers) == {layers[i]["label"] : i \in 1..Len(layers)}

LayerRows(layers, label) ==
    LET i == CHOOSE i \in 1..Len(layers) : layers[i]["label"] = label
    IN layers[i]["rows"]

\* layers[label] = rows
SetLayer(layers, label, rows) ==
    IF label \in LayerLabels(layers)
    THEN [i \in 1..Len(layers) |->
            IF layers[i]["label"] = label THEN [label |-> label, rows |-> rows] ELSE layers[i]]
    ELSE Append(layers, [label |-> label, rows |-> rows])

\* layers.setdefault(label, []).extend(rows)
ExtendLayer(layers, label, rows) ==
    IF label \in LayerLabels(layers)
    THEN [i \in 1..Len(layers) |->
            IF layers[i]["label"] = label
            THEN [label |-> label, rows |-> layers[i]["rows"] \o rows]
            ELSE layers[i]]
    ELSE Append(layers, [label |-> label, rows |-> rows])

\* {k: len(v) for k, v in layers.items()}
Stats(layers) == [k \in LayerLabels(layers) |-> Len(LayerRows(layers, k))]

-----------------------------------------------------------------------------
(* Result Store: services._new_store_id, services._store_layers *)

_new_store_id(now) == ToString(now)

\* the store after _store_layers(layers, args, meta_extra) at clock reading now
StoreLayersAlone(store, now, layers, a, meta_extra) ==
    _new_store_id(now) :> [layers |-> layers, meta |-> meta_extra @@ [created_at |-> now, args |-> a]]

_store_layers(store, now, layers, a, meta_extra) ==
    (_new_store_id(now) :> [layers |-> layers,
                            meta |-> meta_extra @@ [created_at |-> now, args |-> a]])
    @@ store

\* the store left as it is
StoreKeep(store, id) == store

\* every entry taken out with the one asked for
StoreClear(store, id) == <<>>

\* STORE.pop(store_id, None)
StorePop(store, id) == [k \in DOMAIN store \ {id} |-> store[k]]

-----------------------------------------------------------------------------
(* services.run_search_tool *)

\* the known categories of a list, in order (unknown ones are skipped)
RECURSIVE KnownOf(_)
KnownOf(cats) ==
    IF cats = <<>> THEN <<>>
    ELSE IF Head(cats) \in CATEGORY_MAP
         THEN <<Head(cats)>> \o KnownOf(Tail(cats))
         ELSE KnownOf(Tail(cats))

\* the loop over cats: answers[i] is what the i-th query returned
RECURSIVE SearchLoop(_, _, _, _, _)
SearchLoop(cats, answers, i, layers, union_rows) ==
    IF i > Len(cats) THEN [layers |-> layers, union_rows |-> union_rows]
    ELSE LET rows == WithLayer(answers[i], cats[i])
         IN SearchLoop(cats, answers, i + 1, SetLayer(layers, cats[i], rows), union_rows \o rows)

SearchLayers(a, answers) ==
    LET cats == KnownOf(GetOr(a, "categories", <<>>))
        union == GetOr(a, "union", TRUE)
        done == SearchLoop(cats, answers, 1, <<>>, <<>>)
    IN IF union /\ done["union_rows"] # <<>>
       THEN << [label |-> "union", rows |-> Dedup(done["union_rows"])] >>
       ELSE done["layers"]

run_search_tool(store, now, a, answers) ==
    LET layers == SearchLayers(a, answers)
    IN [store |-> _store_layers(store, now, layers, a, EmptyDict),
        result |-> [store_id |-> _new_store_id(now), stats |-> Stats(layers),
                    args |-> a, result_type |-> "search"]]

-----------------------------------------------------------------------------
(* services.run_search_category_tool *)

CategoryBaseArgs(a) ==
    LET picked == [k \in (DOMAIN a \cap {"brand", "place", "radius_km", "limit", "range"}) |-> a[k]]
    IN apply_range_defaults(
         picked @@ [categories |-> <<a["category"]>>,
                    open_24h |-> Truthy(a, "open_24h"),
                    wheelchair |-> Truthy(a, "wheelchair"),
                    union |-> FALSE],
         "search")

run_search_category_tool(store, now, a, rows) ==
    LET category == a["category"]
        base_args == CategoryBaseArgs(a)
        layers == << [label |-> category, rows |-> WithLayer(rows, category)] >>
    IN [store |-> _store_layers(store, now, layers, base_args, [type |-> "category_search"]),
        result |-> [store_id |-> _new_store_id(now), stats |-> Stats(layers),
                    args |-> base_args, result_type |-> "category"]]

-----------------------------------------------------------------------------
(* services.merge_search_results_tool, services._merge_union_layers *)

RECURSIVE ExtendAll(_, _)
ExtendAll(acc, ls) ==
    IF ls = <<>> THEN acc
    ELSE ExtendAll(ExtendLayer(acc, Head(ls)["label"], Head(ls)["rows"]), Tail(ls))

RECURSIVE MergeLayers(_, _, _)
MergeLayers(store, ids, acc) ==
    IF ids = <<>> THEN acc
    ELSE MergeLayers(store, Tail(ids), ExtendAll(acc, store[Head(ids)]["layers"]))

RECURSIVE AppendNew(_, _)
AppendNew(acc, cats) ==
    IF cats = <<>> THEN acc
    ELSE AppendNew(IF \E i \in 1..Len(acc) : acc[i] = Head(cats) THEN acc ELSE Append(acc, Head(cats)),
                   Tail(cats))

RECURSIVE MergedCategories(_, _, _)
MergedCategories(store, ids, acc) ==
    IF ids = <<>> THEN acc
    ELSE MergedCategories(store, Tail(ids),
            AppendNew(acc, GetOr(store[Head(ids)]["meta"]["args"], "categories", <<>>)))

RECURSIVE FlattenLayers(_)
FlattenLayers(layers) ==
    IF layers = <<>> THEN <<>>
    ELSE Head(layers)["rows"] \o FlattenLayers(Tail(layers))

MergeUnionKeepAll(layers) == << [label |-> "union", rows |-> FlattenLayers(layers)] >>

_merge_union_layers(layers) == << [label |-> "union", rows |-> Dedup(FlattenLayers(layers))] >>

\* merge_search_results_tool raises when store_ids is empty or names a missing id
MergeRaises(store, a) ==
    LET ids == GetOr(a, "store_ids", <<>>)
    IN ids = <<>> \/ \E i \in 1..Len(ids) : ids[i] \notin DOMAIN store

merge_search_results_tool(store, now, a) ==
    LET ids == a["store_ids"]
        union == GetOr(a, "union", TRUE)
        merged_args == [categories |-> MergedCategories(store, ids, <<>>), union |-> union]
                       @@ store[ids[1]]["meta"]["args"]
        concat == MergeLayers(store, ids, <<>>)
        layers == IF union THEN _merge_union_layers(concat) ELSE concat
    IN [store |-> _store_layers(store, now, layers, merged_args,
                                [type |-> "merged_search", source_store_ids |-> ids]),
        result |-> [store_id |-> _new_store_id(now), stats |-> Stats(layers),
                    args |-> merged_args, result_type |-> "search"]]

-----------------------------------------------------------------------------
(* services._haversine, services._collect_trip_candidates *)

Abs(x) == IF x < 0 THEN -x ELSE x

\* great-circle distance in millimetres; the rows of the model lie on the
\* meridian of the center, where the distance is R * |dlat| (111.2 km per degree)
_haversine(lat1, lon1, lat2, lon2) == (Abs(lat2 - lat1) * 1112) \div 100

\* services.query_osm_tokyo on the open data: the elements of the category that
\* pass the filters and lie in the geofence, cut to the output cap, as parsed rows.
\* fenced says whether the query carries the (around:...) geofence
RECURSIVE FilterPlaces(_, _, _, _, _, _)
FilterPlaces(places, open_24h, wheelchair, fenced, center, radius) ==
    IF places = <<>> THEN <<>>
    ELSE LET e == Head(places)
             near == \/ ~fenced
                     \/ _haversine(center["lat"], center["lon"], e["row"]["lat"], e["row"]["lon"])
                          <= radius * 1000
             keep == (open_24h => e["h24"]) /\ (wheelchair => e["wc"]) /\ near
         IN (IF keep THEN <<e["row"]>> ELSE <<>>)
            \o FilterPlaces(Tail(places), open_24h, wheelchair, fenced, center, radius)

\* out_n = int(limit or 300), 300 when not positive
OutputCap(limit) == IF limit <= 0 THEN 300 ELSE limit

query_osm_tokyo(c, open_24h, wheelchair, fenced, center, radius, limit) ==
    LET hits == FilterPlaces(OpenData(c), open_24h, wheelchair, fenced, center, radius)
    IN SubSeq(hits, 1, Min(Len(hits), OutputCap(limit)))

\* sort key (dist_km, name or "")
SortsBefore(r1, r2) ==
    \/ r1["dist_km"] < r2["dist_km"]
    \/ /\ r1["dist_km"] = r2["dist_km"]
       /\ NameRank(GetOr(r1, "name", "")) < NameRank(GetOr(r2, "name", ""))

\* insert r after the last element that does not sort after it (stable)
RECURSIVE InsertSorted(_, _)
InsertSorted(sorted, r) ==
    IF sorted = <<>> THEN <<r>>
    ELSE IF SortsBefore(r, Head(sorted))
         THEN <<r>> \o sorted
         ELSE <<Head(sorted)>> \o InsertSorted(Tail(sorted), r)

RECURSIVE SortRows(_, _)
SortRows(rows, acc) ==
    IF rows = <<>> THEN acc ELSE SortRows(Tail(rows), InsertSorted(acc, Head(rows)))

ClampDays(d) == Max(1, Min(d, 14))
ClampPerDay(p) == Max(1, Min(p, 12))

\* one bucket: layer tag, distance, sort, cut to take
Bucket(rows, c, center, take_cap) ==
    LET tagged == WithLayer(rows, c)
        dist == [i \in 1..Len(tagged) |->
                    Put(tagged[i], "dist_km",
                        _haversine(center["lat"], center["lon"], tagged[i]["lat"], tagged[i]["lon"]))]
        sorted == SortRows(dist, <<>>)
    IN SubSeq(sorted, 1, Min(Len(sorted), take_cap))

RECURSIVE BucketLoop(_, _, _, _, _, _)
BucketLoop(interests, answers, i, center, take_cap, buckets) ==
    IF i > Len(interests) THEN buckets
    ELSE BucketLoop(interests, answers, i + 1, center, take_cap,
                    SetLayer(buckets, interests[i], Bucket(answers[i], interests[i], center, take_cap)))

\* the buckets of _collect_trip_candidates; answers[i] is what the i-th query returned
_collect_trip_candidates(a, center, answers) ==
    LET days == ClampDays(GetOr(a, "days", 1))
        per_day == ClampPerDay(GetOr(a, "per_day", 6))
        interests == KnownOf(GetOr(a, "interests", <<>>))
        take_cap == Max(30, (per_day * days * 2) \div Max(1, Len(interests)))
    IN BucketLoop(interests, answers, 1, center, take_cap, <<>>)

-----------------------------------------------------------------------------
(* services._build_itinerary_from_buckets *)

\* the while loop: the first category from the cursor on that has a candidate left
\* (its 1-based position in cats), or 0 when none has
RECURSIVE PickCategory(_, _, _, _)
PickCategory(buckets, idx, cat_cursor, tried) ==
    IF tried >= Len(buckets) THEN 0
    ELSE LET pos == ((cat_cursor + tried) % Len(buckets)) + 1
         IN IF idx[pos] < Len(buckets[pos]["rows"])
            THEN pos
            ELSE PickCategory(buckets, idx, cat_cursor, tried + 1)

\* the inner for loop of one day; st = [items, idx, cat_cursor]
RECURSIVE FillDay(_, _, _)
FillDay(buckets, st, left) ==
    IF left = 0 \/ buckets = <<>> THEN st
    ELSE LET pos == PickCategory(buckets, st["idx"], st["cat_cursor"], 0)
         IN IF pos = 0 THEN st
            ELSE FillDay(buckets,
                         [items |-> Append(st["items"], buckets[pos]["rows"][st["idx"][pos] + 1]),
                          idx |-> [st["idx"] EXCEPT ![pos] = @ + 1],
                          cat_cursor |-> pos % Len(buckets)],
                         left - 1)

StartHourLate(pace) == CASE pace = "relaxed" -> 10 [] pace = "standard" -> 10 [] pace = "packed" -> 8

StartHour(pace) == CASE pace = "relaxed" -> 10 [] pace = "standard" -> 9 [] pace = "packed" -> 8

\* the hour without padding
TimeLabelUnpadded(hour) == ToString(hour) \o ":00"

\* f"{hour:02d}:00"
TimeLabel(hour) == (IF hour >= 0 /\ hour < 10 THEN "0" ELSE "") \o ToString(hour) \o ":00"

\* str.title() of the category labels of the taxonomy
Title(c) == CASE c = "cafe" -> "Cafe" [] c = "park" -> "Park" [] OTHER -> c

\* round(dist_km, 3): millimetres to metres
Round3(mm) == (mm + 500) \div 1000

SlotItem(r, j, per_day, pace) ==
    [k \in (DOMAIN r \cap {"brand"}) |-> r[k]] @@
    [time |-> TimeLabel(StartHour(pace) + j * (8 \div per_day + 1)),
     name |-> GetOr(r, "name", Title(r["layer"])),
     category |-> r["layer"],
     lat |-> r["lat"],
     lon |-> r["lon"],
     distance_km_from_center |-> Round3(r["dist_km"])]

\* the loop over the days: the rows picked for each day, in order
RECURSIVE DayLoopRestart(_, _, _, _, _)
DayLoopRestart(buckets, days, per_day, d, acc) ==
    IF d > days THEN acc["picked"]
    ELSE LET st == FillDay(buckets, [items |-> <<>>, idx |-> [i \in 1..Len(buckets) |-> 0],
                                     cat_cursor |-> acc["cat_cursor"]], per_day)
         IN DayLoopRestart(buckets, days, per_day, d + 1,
                           [picked |-> Append(acc["picked"], st["items"]),
                            idx |-> st["idx"], cat_cursor |-> st["cat_cursor"]])

\* the loop over the days with the cursor back at the first category every day
RECURSIVE DayLoopFromFirst(_, _, _, _, _)
DayLoopFromFirst(buckets, days, per_day, d, acc) ==
    IF d > days THEN acc["picked"]
    ELSE LET st == FillDay(buckets, [items |-> <<>>, idx |-> acc["idx"], cat_cursor |-> 0], per_day)
         IN DayLoopFromFirst(buckets, days, per_day, d + 1,
                             [picked |-> Append(acc["picked"], st["items"]),
                              idx |-> st["idx"], cat_cursor |-> st["cat_cursor"]])

RECURSIVE DayLoop(_, _, _, _, _)
DayLoop(buckets, days, per_day, d, acc) ==
    IF d > days THEN acc["picked"]
    ELSE LET st == FillDay(buckets, [items |-> <<>>, idx |-> acc["idx"], cat_cursor |-> acc["cat_cursor"]],
                           per_day)
         IN DayLoop(buckets, days, per_day, d + 1,
                    [picked |-> Append(acc["picked"], st["items"]),
                     idx |-> st["idx"], cat_cursor |-> st["cat_cursor"]])

\* the rows picked when every day starts at the head of the buckets again
PickedFromHead(buckets, days, per_day) ==
    DayLoopRestart(buckets, days, per_day, 1,
                   [picked |-> <<>>, idx |-> [i \in 1..Len(buckets) |-> 0], cat_cursor |-> 0])

PickedPerDay(buckets, days, per_day) ==
    DayLoop(buckets, days, per_day, 1,
            [picked |-> <<>>, idx |-> [i \in 1..Len(buckets) |-> 0], cat_cursor |-> 0])

\* the itinerary of _build_itinerary_from_buckets
_build_itinerary_from_buckets(place, center, buckets, days, per_day, pace) ==
    LET picked == PickedPerDay(buckets, days, per_day)
    IN [d \in 1..days |->
          [k \in (IF place = None THEN {} ELSE {"place"}) |-> place] @@
          [day |-> d, center |-> center,
           items |-> [j \in 1..Len(picked[d]) |-> SlotItem(picked[d][j], j - 1, per_day, pace)]]]

UnionRow(it) ==
    [k \in (DOMAIN it \cap {"brand"}) |-> it[k]] @@
    [lat |-> it["lat"], lon |-> it["lon"], name |-> it["name"], layer |-> it["category"]]

\* the flattened union_rows of _build_itinerary_from_buckets
RECURSIVE UnionRows(_)
UnionRows(itinerary) ==
    IF itinerary = <<>> THEN <<>>
    ELSE [j \in 1..Len(Head(itinerary)["items"]) |-> UnionRow(Head(itinerary)["items"][j])]
         \o UnionRows(Tail(itinerary))

-----------------------------------------------------------------------------
(* services.plan_trip_tokyo_impl, collect_trip_candidates_tool, build_trip_itinerary_tool *)

plan_trip_tokyo_impl(store, now, a, center, answers) ==
    LET days == ClampDays(GetOr(a, "days", 1))
        per_day == ClampPerDay(GetOr(a, "per_day", 6))
        pace == GetOr(a, "pace", "standard")
        buckets == _collect_trip_candidates(a, center, answers)
        itinerary == _build_itinerary_from_buckets(a["place"], center, buckets, days, per_day, pace)
        union_rows == UnionRows(itinerary)
    IN [store |-> _store_layers(store, now, << [label |-> "union", rows |-> union_rows] >>, a,
                                [type |-> "trip"]),
        result |-> [store_id |-> _new_store_id(now), itinerary |-> itinerary,
                    stats |-> [days |-> days, per_day |-> per_day, spots |-> Len(union_rows)],
                    args |-> a, result_type |-> "trip"]]

collect_trip_candidates_tool(store, now, a0, center, answers) ==
    LET a == apply_range_defaults(a0, "trip")
        buckets == _collect_trip_candidates(a, center, answers)
    IN [store |-> _store_layers(store, now, buckets, a,
                                [type |-> "trip_candidates", center |-> center, place |-> a["place"]]),
        result |-> [candidate_id |-> _new_store_id(now), stats |-> Stats(buckets),
                    args |-> a, result_type |-> "candidate"]]

\* x or y or dflt on optional integers (None and 0 are falsy)
OrInt(a, b, k, dflt) ==
    IF Has(a, k) /\ a[k] # 0 THEN a[k]
    ELSE IF Has(b, k) /\ b[k] # 0 THEN b[k]
    ELSE dflt

\* x or y or dflt on optional strings
OrStr(a, b, k, dflt) ==
    IF Has(a, k) /\ a[k] # "" THEN a[k]
    ELSE IF Has(b, k) /\ b[k] # "" THEN b[k]
    ELSE dflt

ItineraryPlace(store, a) ==
    LET meta == store[a["candidate_id"]]["meta"]
    IN OrStr(a, meta, "place", GetOr(meta["args"], "place", None))

ItineraryDays(store, a) == ClampDays(OrInt(a, store[a["candidate_id"]]["meta"]["args"], "days", 1))
ItineraryPerDay(store, a) == ClampPerDay(OrInt(a, store[a["candidate_id"]]["meta"]["args"], "per_day", 6))

\* build_trip_itinerary_tool raises: no candidate_id, unknown id, no center, or a
\* scheduled row without dist_km (an entry that is not a candidate entry)
BuildRaises(store, a, geocoded) ==
    \/ ~Has(a, "candidate_id")
    \/ a["candidate_id"] \notin DOMAIN store
    \/ LET data == store[a["candidate_id"]]
           picked == PickedPerDay(data["layers"], ItineraryDays(store, a), ItineraryPerDay(store, a))
       IN \/ ~Has(data["meta"], "center") /\ (ItineraryPlace(store, a) = None \/ ~geocoded)
          \/ \E d \in 1..Len(picked) : \E j \in 1..Len(picked[d]) : ~Has(picked[d][j], "dist_km")

build_trip_itinerary_tool(store, now, a) ==
    LET data == store[a["candidate_id"]]
        meta_args == data["meta"]["args"]
        place == ItineraryPlace(store, a)
        center == GetOr(data["meta"], "center", Center)
        days == ItineraryDays(store, a)
        per_day == ItineraryPerDay(store, a)
        pace == OrStr(a, meta_args, "pace", "standard")
        itinerary == _build_itinerary_from_buckets(place, center, data["layers"], days, per_day, pace)
        union_rows == UnionRows(itinerary)
        args_out == [k \in (IF place = None THEN {} ELSE {"place"}) |-> place] @@
                    [days |-> days, per_day |-> per_day, pace |-> pace] @@
                    [k \in DOMAIN meta_args \ {"place"} |-> meta_args[k]]
    IN [store |-> _store_layers(store, now, << [label |-> "union", rows |-> union_rows] >>, args_out,
                                [type |-> "trip", source_candidate_id |-> a["candidate_id"]]),
        result |-> [store_id |-> _new_store_id(now), itinerary |-> itinerary,
                    stats |-> [days |-> days, per_day |-> per_day, spots |-> Len(union_rows)],
                    args |-> args_out, result_type |-> "trip"]]

-----------------------------------------------------------------------------
(* agent.validate_search_result, agent.validate_trip_result *)

COUNT_REASON == "count_based"
Unavailable == [unavailable |-> TRUE]

\* what the judgment capability can answer: nothing usable, or a JSON object
JudgeOutputs ==
    { Unavailable,
      [success |-> FALSE],
      [success |-> TRUE, reason |-> "", action_ok |-> TRUE],
      [success |-> FALSE, reason |-> "too_few", action_ok |-> TRUE],
      [success |-> TRUE, reason |-> "wrong_tool", action_ok |-> FALSE],
      [success |-> FALSE, reason |-> "", action_ok |-> FALSE] }

\* the verdict built from a parsed answer
VerdictOf(data) ==
    [success |-> Truthy(data, "success"),
     reason |-> GetOr(data, "reason", ""),
     action_ok |-> GetOr(data, "action_ok", TRUE)]

SearchFallbackLoose(result) ==
    LET stats == GetOr(result, "stats", EmptyDict)
    IN [success |-> SumOver(stats, DOMAIN stats) >= 3, reason |-> COUNT_REASON, action_ok |-> TRUE]

SearchFallback(result) ==
    LET stats == GetOr(result, "stats", EmptyDict)
    IN [success |-> SumOver(stats, DOMAIN stats) >= 5, reason |-> COUNT_REASON, action_ok |-> TRUE]

validate_search_result(a, result, judge) ==
    IF Has(judge, "unavailable") THEN SearchFallback(result) ELSE VerdictOf(judge)

\* int(x) of a quotient: truncation toward zero
Trunc(n, d) == IF n >= 0 THEN n \div d ELSE -((-n) \div d)

TripFallbackTotalOnly(a, result) ==
    LET itinerary == GetOr(result, "itinerary", <<>>)
        day_counts == [d \in 1..Len(itinerary) |-> Len(itinerary[d]["items"])]
        spots == SumOver(day_counts, 1..Len(itinerary))
        days == OrInt(a, EmptyDict, "days", 1)
        per_day == OrInt(a, EmptyDict, "per_day", 6)
        threshold == Max(3, Trunc(days * per_day * 95, 100))
    IN [success |-> spots >= threshold, reason |-> COUNT_REASON, action_ok |-> TRUE]

TripFallback(a, result) ==
    LET itinerary == GetOr(result, "itinerary", <<>>)
        day_counts == [d \in 1..Len(itinerary) |-> Len(itinerary[d]["items"])]
        spots == SumOver(day_counts, 1..Len(itinerary))
        days == OrInt(a, EmptyDict, "days", 1)
        per_day == OrInt(a, EmptyDict, "per_day", 6)
        threshold == Max(3, Trunc(days * per_day * 95, 100))
        day_ok == \A d \in 1..Len(itinerary) : day_counts[d] >= Max(1, Trunc(per_day * 8, 10))
    IN [success |-> (spots >= threshold /\ day_ok), reason |-> COUNT_REASON, action_ok |-> TRUE]

validate_trip_result(a, result, judge) ==
    IF Has(judge, "unavailable") THEN TripFallback(a, result) ELSE VerdictOf(judge)

validate_result(m, a, result, judge) ==
    IF m = "search" THEN validate_search_result(a, result, judge)
    ELSE validate_trip_result(a, result, judge)

\* agent.summarize_result: the model's text, or the fixed message when it fails
SUMMARY_FALLBACK == "summary_failed"
Summaries == {"summary", SUMMARY_FALLBACK}

-----------------------------------------------------------------------------
(* What the language model can supply *)

\* arguments the model can give to search_osm_tokyo
SearchArgChoices ==
    { [categories |-> <<"cafe">>],
      [categories |-> <<"cafe", "zoo">>, place |-> "shibuya", radius_km |-> 1500,
       open_24h |-> TRUE, wheelchair |-> TRUE, union |-> FALSE, range |-> "narrow"],
      [categories |-> <<"cafe", "park">>, place |-> "shibuya", radius_km |-> 20000,
       limit |-> 600, range |-> "wide"] }

CategoryArgChoices == { [category |-> "cafe", place |-> "shibuya"], [category |-> "zoo"] }

MergeArgChoices ==
    { [store_ids |-> <<_new_store_id(3)>>],
      [store_ids |-> <<_new_store_id(3), _new_store_id(4)>>, union |-> FALSE] }

\* arguments the model can give to plan_trip_tokyo
TripArgChoices ==
    { [place |-> "ueno", interests |-> <<"park">>, range |-> "narrow"],
      [place |-> "ueno", days |-> 2, per_day |-> 4, interests |-> <<"park", "zoo", "cafe">>,
       radius_km |-> 25000, limit |-> 900, open_24h |-> TRUE, wheelchair |-> TRUE,
       pace |-> "relaxed"] }

CandidateArgChoices == { [place |-> "ueno", interests |-> <<"park">>, per_day |-> 2] }

ItineraryArgChoices ==
    { [candidate_id |-> _new_store_id(3)], [candidate_id |-> _new_store_id(4), days |-> 2] }

Call(name, a) == [name |-> name, arguments |-> a]

\* agent.build_tools(mode): the calls the model can issue
ToolCallChoices(m) ==
    IF m = "search"
    THEN { Call("search_osm_tokyo", a) : a \in SearchArgChoices }
         \cup { Call("search_category_tokyo", a) : a \in CategoryArgChoices }
         \cup { Call("merge_search_results", a) : a \in MergeArgChoices }
    ELSE { Call("plan_trip_tokyo", a) : a \in TripArgChoices }
         \cup { Call("collect_trip_candidates", a) : a \in CandidateArgChoices }
         \cup { Call("build_trip_itinerary", a) : a \in ItineraryArgChoices }

\* the calls the model combines into turns of several calls: one whose result is
\* not terminal, and one that ends the chain when the entry it names exists
BatchFirst(m) ==
    IF m = "search" THEN Call("search_category_tokyo", [category |-> "cafe", place |-> "shibuya"])
    ELSE Call("collect_trip_candidates", [place |-> "ueno", interests |-> <<"park">>, per_day |-> 2])

BatchLast(m) ==
    IF m = "search" THEN Call("merge_search_results", [store_ids |-> <<_new_store_id(3)>>])
    ELSE Call("build_trip_itinerary", [candidate_id |-> _new_store_id(3)])

\* the turns of n calls: the second kind of call nowhere, or at one position
Batches(m, n) ==
    { [i \in 1..n |-> BatchFirst(m)] }
    \cup { [i \in 1..n |-> IF i = k THEN BatchLast(m) ELSE BatchFirst(m)] : k \in {1, n} }

\* msg.tool_calls of one model turn: none, one call, or up to MaxBatch calls
ModelResponses(m) ==
    { <<>> }
    \cup { <<c>> : c \in ToolCallChoices(m) }
    \cup UNION { Batches(m, n) : n \in 2..MaxBatch }

-----------------------------------------------------------------------------
(* api._call_tool, api._run_tool_by_mode: the set of outcomes of one execution.   *)
(* An outcome is [raised |-> TRUE], or the result with the store and clock after. *)

\* the readings of the clock a put can see: a tool that waited for the network sees
\* a later millisecond, one that did not may still see the millisecond of the last put
Nows(clk, waited) == IF waited THEN {clk + 1} ELSE {clk, clk + 1}

Raised == [raised |-> TRUE]
Returned(done, now) == [raised |-> FALSE, store |-> done["store"], result |-> done["result"], now |-> now]

\* the rows that the queries of run_search_tool return, one per known category
SearchAnswers(a) ==
    LET cats == KnownOf(GetOr(a, "categories", <<>>))
        radius == GetOr(a, "radius_km", 0)
        limit == GetOr(a, "limit", 300)
    IN [i \in 1..Len(cats) |->
          query_osm_tokyo(cats[i], Truthy(a, "open_24h"), Truthy(a, "wheelchair"),
                          Has(a, "place") /\ radius # 0, Center, radius, limit)]

SearchOutcomes(store, clk, a) ==
    LET waited == SearchAnswers(a) # <<>> \/ Has(a, "place")
    IN (IF waited THEN {Raised} ELSE {})
       \cup { Returned(run_search_tool(store, now, a, SearchAnswers(a)), now) : now \in Nows(clk, waited) }

CategoryOutcomes(store, clk, a) ==
    IF GetOr(a, "category", None) \notin CATEGORY_MAP THEN {Raised}
    ELSE LET rows == SearchAnswers(CategoryBaseArgs(a))[1]
         IN {Raised}
            \cup { Returned(run_search_category_tool(store, now, a, rows), now) : now \in Nows(clk, TRUE) }

MergeOutcomesSkipMissing(store, clk, a) ==
    LET InStore(id) == id \in DOMAIN store
        present == SelectSeq(GetOr(a, "store_ids", <<>>), InStore)
    IN IF present = <<>> THEN {Raised}
       ELSE { Returned(merge_search_results_tool(store, now, Put(a, "store_ids", present)), now) :
                now \in Nows(clk, FALSE) }

MergeOutcomes(store, clk, a) ==
    IF MergeRaises(store, a) THEN {Raised}
    ELSE { Returned(merge_search_results_tool(store, now, a), now) : now \in Nows(clk, FALSE) }

\* the rows that the queries of _collect_trip_candidates return, one per known interest
TripAnswers(a) ==
    LET interests == KnownOf(GetOr(a, "interests", <<>>))
        radius == GetOr(a, "radius_km", 3000)
        limit == GetOr(a, "limit", 300)
    IN [i \in 1..Len(interests) |->
          query_osm_tokyo(interests[i], Truthy(a, "open_24h"), Truthy(a, "wheelchair"),
                          radius # 0, Center, radius, limit)]

PlanOutcomes(store, clk, a) ==
    IF ~Has(a, "place") THEN {Raised}
    ELSE {Raised}
         \cup { Returned(plan_trip_tokyo_impl(store, now, a, Center, TripAnswers(a)), now) :
                  now \in Nows(clk, TRUE) }

CandidateOutcomes(store, clk, a0) ==
    LET a == apply_range_defaults(a0, "trip")
    IN IF ~Has(a, "place") THEN {Raised}
       ELSE {Raised}
            \cup { Returned(collect_trip_candidates_tool(store, now, a0, Center, TripAnswers(a)), now) :
                     now \in Nows(clk, TRUE) }

\* build_trip_itinerary_tool geocodes only when the entry records no center
ItineraryWaits(store, a) ==
    /\ Has(a, "candidate_id")
    /\ a["candidate_id"] \in DOMAIN store
    /\ ~Has(store[a["candidate_id"]]["meta"], "center")
    /\ ItineraryPlace(store, a) # None

ItineraryOutcomes(store, clk, a) ==
    (IF BuildRaises(store, a, FALSE) THEN {Raised} ELSE {})
    \cup (IF BuildRaises(store, a, TRUE) THEN {}
          ELSE { Returned(build_trip_itinerary_tool(store, now, a), now) :
                   now \in Nows(clk, ItineraryWaits(store, a)) })

_call_tool(store, clk, name, a) ==
    CASE name = "search_osm_tokyo" -> SearchOutcomes(store, clk, apply_range_defaults(a, "search"))
      [] name = "search_category_tokyo" -> CategoryOutcomes(store, clk, a)
      [] name = "merge_search_results" -> MergeOutcomes(store, clk, a)
      [] name = "plan_trip_tokyo" -> PlanOutcomes(store, clk, apply_range_defaults(a, "trip"))
      [] name = "collect_trip_candidates" -> CandidateOutcomes(store, clk, a)
      [] name = "build_trip_itinerary" -> ItineraryOutcomes(store, clk, a)
      [] OTHER -> {Raised}

_run_tool_by_mode(store, clk, m, a) ==
    CASE m = "search" -> SearchOutcomes(store, clk, apply_range_defaults(a, "search"))
      [] m = "trip" -> PlanOutcomes(store, clk, apply_range_defaults(a, "trip"))
      [] OTHER -> {Raised}

-----------------------------------------------------------------------------
(* The responses of the handlers *)

USER_TEXT == "user_text"
EXTRACTION_FAILED == "parameter_extraction_failed"
ACTION_REJECTED == "action_not_ok"
GOAL_UNMET == "goal_unmet"

\* the text as it is, empty or not
KeepText(x, dflt) == x

\* x or dflt on a text
OrText(x, dflt) == IF x = "" THEN dflt ELSE x

HttpError(status, detail) == [error |-> status, detail |-> detail]

\* the keys of last_result a handler spreads into its response (**last_result)
Spread(ep, m, result) == IF ep = "trip" \/ (ep = "review" /\ m = "trip") THEN result ELSE EmptyDict

\* "stats": last_result.get("stats"), set by the query and review handlers
StatsField(ep, result) ==
    IF ep \in {"query", "review"} /\ Has(result, "stats") THEN [stats |-> result["stats"]] ELSE EmptyDict

\* "store_id": last_result.get("store_id"), set by the query and review handlers
StoreIdField(ep, result) ==
    IF ep \in {"query", "review"} THEN [store_id |-> GetOr(result, "store_id", None)] ELSE EmptyDict

ChainErrorResponse(summary) ==
    [summary |-> summary, success |-> FALSE, failure_reason |-> EXTRACTION_FAILED]

EscalateResponse(ep, m, a, result, v, att, summary) ==
    [summary |-> summary,
     store_id |-> None,
     success |-> FALSE,
     failure_reason |-> OrText(v["reason"], ACTION_REJECTED),
     evaluation |-> v,
     require_review |-> TRUE,
     review_reason |-> v["reason"],
     review_context |-> [mode |-> m, user_text |-> USER_TEXT, args |-> a, last_result |-> result],
     attempts |-> att]
    @@ StatsField(ep, result) @@ Spread(ep, m, result)

SuccessResponseUnsummarized(ep, m, result, v, att, summary) ==
    [summary |-> summary, success |-> summary # SUMMARY_FALLBACK, failure_reason |-> "",
     evaluation |-> v, attempts |-> att]
    @@ StoreIdField(ep, result) @@ StatsField(ep, result) @@ Spread(ep, m, result)

SuccessResponse(ep, m, result, v, att, summary) ==
    [summary |-> summary, success |-> TRUE, failure_reason |-> "", evaluation |-> v, attempts |-> att]
    @@ StoreIdField(ep, result) @@ StatsField(ep, result) @@ Spread(ep, m, result)

ExhaustedResponse(ep, m, result, v, reason, summary) ==
    [summary |-> summary, success |-> FALSE, failure_reason |-> reason, evaluation |-> v,
     attempts |-> MAX_ITERS]
    @@ StoreIdField(ep, result) @@ StatsField(ep, result) @@ Spread(ep, m, result)

-----------------------------------------------------------------------------
(* The state machine *)

Idle == pc \in {"idle", "done"}

Init ==
    /\ STORE = EmptyDict
    /\ clock = 1
    /\ endpoint = "none"
    /\ pc = "idle"
    /\ mode = "search"
    /\ messages = <<>>
    /\ nudge_used = FALSE
    /\ step = 0
    /\ pending = <<>>
    /\ args = EmptyDict
    /\ last_result = EmptyDict
    /\ last_reason = ""
    /\ validation = EmptyDict
    /\ attempt = 0
    /\ chain = EmptyDict
    /\ response = EmptyDict
    /\ lookup = EmptyDict
    /\ log = <<>>

\* a request is accepted while the clock of the model has not run out
Accepting == Idle /\ clock < MaxClock

\* the locals of a handler at its entry; a request arrives at least a millisecond
\* after the one before it was answered
EnterHandler(ep, m) ==
    /\ clock' = clock + 1
    /\ endpoint' = ep
    /\ mode' = m
    /\ nudge_used' = FALSE
    /\ step' = 0
    /\ pending' = <<>>
    /\ last_reason' = ""
    /\ validation' = EmptyDict
    /\ chain' = EmptyDict
    /\ lookup' = EmptyDict
    /\ log' = <<>>

\* map_query and trip_plan up to the first model call of _run_agent_tool_chain
StartChain(ep, m) ==
    /\ Accepting
    /\ EnterHandler(ep, m)
    /\ messages' = << [role |-> "system"], [role |-> "user", content |-> USER_TEXT] >>
    /\ args' = EmptyDict
    /\ last_result' = EmptyDict
    /\ attempt' = 0
    /\ response' = EmptyDict
    /\ pc' = "await_model"
    /\ UNCHANGED STORE

map_query == StartChain("query", "search")

trip_plan == StartChain("trip", "trip")

\* _run_agent_tool_chain returns: its locals are gone
ChainReturns(value) ==
    /\ chain' = value
    /\ messages' = <<>>
    /\ pending' = <<>>
    /\ step' = 0
    /\ nudge_used' = FALSE

\* the chain returned {"error": ...}: the handler answers with the extraction failure
ChainFails(error) ==
    /\ ChainReturns([error |-> error])
    /\ \E summary \in Summaries : response' = ChainErrorResponse(summary)
    /\ pc' = "done"

\* for _ in range(MAX_TOOL_STEPS), with a bound that lets one more iteration in
HasNextStepLoose(steps_begun) == steps_begun <= MAX_TOOL_STEPS

\* for _ in range(MAX_TOOL_STEPS): whether another iteration follows
HasNextStep(steps_begun) == steps_begun < MAX_TOOL_STEPS

\* tool call ids given by the model: unique in the chain
WithIds(calls, st) ==
    [i \in 1..Len(calls) |-> [id |-> st * 10 + i, name |-> calls[i]["name"],
                              arguments |-> calls[i]["arguments"]]]

\* if nudge_used, with the test left out
NudgeAlways(used) == TRUE

\* if nudge_used: return {"error": "no tool calls"}
NudgeAllowed(used) == ~used

\* one model consultation of _run_agent_tool_chain, up to the first tool execution
ChainConsultModel ==
    /\ pc = "await_model"
    /\ \E calls \in ModelResponses(mode) :
         IF calls = <<>>
         THEN IF NudgeAllowed(nudge_used)
              THEN IF HasNextStep(step + 1)
                   THEN /\ messages' = messages \o << [role |-> "assistant", content |-> ""],
                                                      [role |-> "user", content |-> "nudge"] >>
                        /\ nudge_used' = TRUE
                        /\ step' = step + 1
                        /\ UNCHANGED <<pc, pending, chain, response>>
                   ELSE ChainFails("tool steps exceeded")
              ELSE ChainFails("no tool calls")
         ELSE /\ messages' = Append(messages, [role |-> "assistant", tool_calls |-> WithIds(calls, step + 1)])
              /\ pending' = WithIds(calls, step + 1)
              /\ step' = step + 1
              /\ pc' = "tool_executing"
              /\ UNCHANGED <<nudge_used, chain, response>>
    /\ UNCHANGED <<STORE, clock, endpoint, mode, args, last_result, last_reason,
                   validation, attempt, lookup, log>>

\* what is remembered of one tool execution of the validation-retry loop
RunEntry(att, a, o) ==
    [ev |-> "run", attempt |-> att, args |-> a,
     status |-> IF o["raised"] THEN "raised" ELSE "returned",
     store_id |-> IF o["raised"] THEN None ELSE GetOr(o["result"], "store_id", None)]

ValidateEntry(att, outcome) == [ev |-> "validate", attempt |-> att, outcome |-> outcome]

ReviseEntry(att) == [ev |-> "revise", attempt |-> att]

\* result.get("result_type") in ("search", "trip")
IsTerminal(result) == GetOr(result, "result_type", None) \in {"search", "trip"}

\* the rest of the batch, with one call too many dropped
SkipOne(batch) == IF Len(batch) > 1 THEN Tail(Tail(batch)) ELSE Tail(batch)

\* for tc in msg.tool_calls: the call executed next, and what is left after it
NextCall(batch) == Head(batch)
RestOfBatch(batch) == Tail(batch)

\* final_args = result.get("args") or args
FinalArgs(result, a) ==
    IF GetOr(result, "args", EmptyDict) # EmptyDict THEN result["args"] ELSE a

\* one tool execution of the inner loop of _run_agent_tool_chain
ChainCallTool ==
    /\ pc = "tool_executing"
    /\ LET tc == NextCall(pending)
       IN \E o \in _call_tool(STORE, clock, tc["name"], tc["arguments"]) :
            IF o["raised"]
            THEN \* the exception leaves the chain and the handler: the request fails
                 /\ ChainReturns([exception |-> tc["name"]])
                 /\ response' = HttpError(500, "tool error")
                 /\ pc' = "done"
                 /\ UNCHANGED <<STORE, clock, args, last_result, attempt, log>>
            ELSE /\ STORE' = o["store"]
                 /\ clock' = o["now"]
                 /\ IF IsTerminal(o["result"])
                    THEN /\ ChainReturns([result |-> o["result"],
                                          args |-> FinalArgs(o["result"], tc["arguments"]),
                                          tool_name |-> tc["name"]])
                         /\ args' = FinalArgs(o["result"], tc["arguments"])
                         /\ last_result' = o["result"]
                         /\ attempt' = 1
                         /\ log' = << RunEntry(1, FinalArgs(o["result"], tc["arguments"]), o) >>
                         /\ pc' = "validate"
                         /\ UNCHANGED response
                    ELSE IF RestOfBatch(pending) # <<>> \/ HasNextStep(step)
                    THEN /\ messages' = Append(messages, [role |-> "tool", tool_call_id |-> tc["id"],
                                                          content |-> o["result"]])
                         /\ pending' = RestOfBatch(pending)
                         /\ pc' = IF RestOfBatch(pending) # <<>> THEN "tool_executing" ELSE "await_model"
                         /\ UNCHANGED <<args, last_result, attempt, chain, response, step, nudge_used, log>>
                    ELSE /\ ChainFails("tool steps exceeded")
                         /\ UNCHANGED <<args, last_result, attempt, log>>
    /\ UNCHANGED <<endpoint, mode, last_reason, validation, lookup>>

-----------------------------------------------------------------------------
(* The validation-retry loop of map_query, trip_plan and review_continue *)

\* the arguments handed on as they are
ReviseNothing(m, a, att) == a

revise_args(m, a, att) ==
    IF m = "search" THEN revise_search_args(a, att) ELSE revise_trip_args(a, att)

\* the test of action_ok left out: a rejected action is handled as an unmet goal
NoEscalation(v) == FALSE

\* the test of action_ok made only on a verdict without success
EscalatesUnlessSuccess(v) == v["action_ok"] = FALSE /\ ~v["success"]

\* validation.get("action_ok") is False
Escalates(v) == v["action_ok"] = FALSE

\* validation.get("success")
Succeeds(v) == v["success"]

\* attempt < MAX_ITERS, with a bound that lets one more attempt in
HasNextAttemptLoose(att) == att <= MAX_ITERS

\* whether another attempt follows attempt att
HasNextAttempt(att) == att < MAX_ITERS

\* one validation and what the handler does with the verdict
LoopValidate ==
    /\ pc = "validate"
    /\ \E judge \in JudgeOutputs, summary \in Summaries :
         LET v == validate_result(mode, args, last_result, judge)
             reason == OrText(v["reason"], GOAL_UNMET)
         IN /\ validation' = v
            /\ IF Escalates(v)
               THEN /\ STORE' = IF GetOr(last_result, "store_id", "") # ""
                                THEN StorePop(STORE, last_result["store_id"]) ELSE STORE
                    /\ response' = EscalateResponse(endpoint, mode, args, last_result, v, attempt, summary)
                    /\ pc' = "done"
                    /\ log' = Append(log, ValidateEntry(attempt, "escalate"))
                    /\ UNCHANGED <<args, last_reason, attempt>>
               ELSE IF Succeeds(v)
               THEN /\ response' = SuccessResponse(endpoint, mode, last_result, v, attempt, summary)
                    /\ pc' = "done"
                    /\ log' = Append(log, ValidateEntry(attempt, "success"))
                    /\ UNCHANGED <<STORE, args, last_reason, attempt>>
               ELSE /\ last_reason' = reason
                    /\ UNCHANGED STORE
                    /\ IF HasNextAttempt(attempt)
                       THEN /\ attempt' = attempt + 1
                            /\ pc' = "run_tool"
                            /\ IF endpoint = "review"
                               THEN /\ args' = revise_args(mode, args, attempt)
                                    /\ log' = log \o << ValidateEntry(attempt, "unmet"), ReviseEntry(attempt) >>
                               ELSE /\ log' = Append(log, ValidateEntry(attempt, "unmet"))
                                    /\ UNCHANGED args
                            /\ UNCHANGED response
                       ELSE /\ response' = ExhaustedResponse(endpoint, mode, last_result, v, reason, summary)
                            /\ pc' = "done"
                            /\ log' = Append(log, ValidateEntry(attempt, "unmet"))
                            /\ UNCHANGED <<args, attempt>>
    /\ UNCHANGED <<clock, endpoint, mode, messages, nudge_used, step, pending,
                   last_result, chain, lookup>>

\* the tool execution of an attempt: every attempt of review_continue, and the
\* retries of map_query and trip_plan, which revise the arguments first
LoopRunTool ==
    /\ pc = "run_tool"
    /\ LET revised == IF endpoint = "review" THEN args ELSE revise_args(mode, args, attempt - 1)
           used == apply_range_defaults(revised, mode)
           entry == IF endpoint = "review" THEN <<>> ELSE << ReviseEntry(attempt - 1) >>
       IN \E o \in _run_tool_by_mode(STORE, clock, mode, revised) :
            /\ args' = used
            /\ IF o["raised"]
               THEN /\ response' = HttpError(400, "tool error")
                    /\ pc' = "done"
                    /\ log' = log \o entry \o << RunEntry(attempt, used, o) >>
                    /\ UNCHANGED <<STORE, clock, last_result>>
               ELSE /\ STORE' = o["store"]
                    /\ clock' = o["now"]
                    /\ last_result' = o["result"]
                    /\ pc' = "validate"
                    /\ log' = log \o entry \o << RunEntry(attempt, used, o) >>
                    /\ UNCHANGED response
    /\ UNCHANGED <<endpoint, mode, messages, nudge_used, step, pending, last_reason,
                   validation, attempt, chain, lookup>>

-----------------------------------------------------------------------------
(* review_continue up to its first tool execution *)

\* the context a client can post: the review_context it was given last, one it
\* was given earlier, or a broken one
ReviewContexts ==
    (IF Has(response, "review_context") THEN {response["review_context"]} ELSE {})
    \cup { [mode |-> "search", user_text |-> USER_TEXT, last_result |-> EmptyDict,
            args |-> [categories |-> <<"cafe">>, place |-> "shibuya", radius_km |-> 1500, limit |-> 120,
                      open_24h |-> TRUE, wheelchair |-> TRUE, range |-> "narrow"]],
           [mode |-> "trip", user_text |-> USER_TEXT, last_result |-> EmptyDict,
            args |-> [place |-> "ueno", interests |-> <<"park">>, days |-> 1, per_day |-> 7,
                      radius_km |-> 2500, limit |-> 200, wheelchair |-> TRUE, range |-> "narrow"]],
           [mode |-> "other", user_text |-> USER_TEXT] }

\* payload.review_text as posted
ReviewTexts == {"", "  ", "wider"}

\* str.strip() on the texts of the model
Strip(text) == IF text = "  " THEN "" ELSE text

NotADict == [not_a_dict |-> TRUE]

\* agent.extract_args_from_review: what the patching capability can answer
ReviewPatches(a) ==
    { NotADict, a, [k \in DOMAIN a \ {"radius_km", "limit", "per_day"} |-> a[k]] }

\* the request that extract_args_from_review sends to the patching capability
PatchRequest(m, review_text) == [role |-> "user", payload |-> [mode |-> m, review_text |-> review_text]]

InvalidReviewModeOnly(review_text, m) == m \notin {"search", "trip"}

\* not review_text or mode not in ("search", "trip")
InvalidReview(review_text, m) == review_text = "" \/ m \notin {"search", "trip"}

review_continue ==
    /\ Accepting
    /\ \E ctx \in ReviewContexts, posted \in ReviewTexts :
         LET review_text == Strip(posted)
         IN
         /\ EnterHandler("review", IF GetOr(ctx, "mode", None) = "trip" THEN "trip" ELSE "search")
         /\ last_result' = GetOr(ctx, "last_result", EmptyDict)
         /\ IF InvalidReview(review_text, GetOr(ctx, "mode", None))
            THEN /\ response' = HttpError(400, "invalid review payload")
                 /\ messages' = <<>>
                 /\ args' = GetOr(ctx, "args", EmptyDict)
                 /\ attempt' = 0
                 /\ pc' = "done"
            ELSE /\ messages' = << PatchRequest(ctx["mode"], review_text) >>
                 /\ \E new_args \in ReviewPatches(GetOr(ctx, "args", EmptyDict)) :
                      IF new_args = NotADict
                      THEN /\ response' = HttpError(400, "review parsing failed")
                           /\ args' = GetOr(ctx, "args", EmptyDict)
                           /\ attempt' = 0
                           /\ pc' = "done"
                      ELSE /\ args' = apply_range_defaults(new_args, ctx["mode"])
                           /\ response' = EmptyDict
                           /\ attempt' = 1
                           /\ pc' = "run_tool"
    /\ UNCHANGED STORE

-----------------------------------------------------------------------------
(* map_geojson *)

RECURSIVE Features(_)
Features(layers) ==
    IF layers = <<>> THEN <<>>
    ELSE [i \in 1..Len(Head(layers)["rows"]) |->
            LET r == Head(layers)["rows"][i]
            IN [type |-> "Feature",
                geometry |-> [type |-> "Point", coordinates |-> <<r["lon"], r["lat"]>>],
                properties |-> [k \in (DOMAIN r \cap {"name", "brand"}) |-> r[k]]
                               @@ [layer |-> Head(layers)["label"]]]]
         \o Features(Tail(layers))

GeojsonOf(store, store_id) ==
    IF store_id \notin DOMAIN store
    THEN HttpError(404, "store_id not found")
    ELSE [type |-> "FeatureCollection", features |-> Features(store[store_id]["layers"]),
          meta |-> store[store_id]["meta"]]

\* the id a client looks up: the one of the result it was answered about, or the first
LookupIds == IF Has(last_result, "store_id") THEN {last_result["store_id"]} ELSE {_new_store_id(3)}

map_geojson ==
    /\ Idle
    /\ \E id \in LookupIds : lookup' = [store_id |-> id, answer |-> GeojsonOf(STORE, id)]
    /\ UNCHANGED <<STORE, clock, endpoint, pc, mode, messages, nudge_used, step, pending,
                   args, last_result, last_reason, validation, attempt, chain, response, log>>

-----------------------------------------------------------------------------

Next ==
    \/ map_query
    \/ trip_plan
    \/ review_continue
    \/ map_geojson
    \/ ChainConsultModel
    \/ ChainCallTool
    \/ LoopValidate
    \/ LoopRunTool

Spec == Init /\ [][Next]_vars

-----------------------------------------------------------------------------
(* The argument functions on their own: one set of arguments is given its     *)
(* defaults, revised, run by the tool of its mode and judged by the fallback  *)
(* of the validator.                                                          *)

TierOpts ==
    { EmptyDict, [range |-> "narrow"], [range |-> "standard"], [range |-> "wide"], [range |-> "bogus"] }

\* arguments a caller can pass in search mode: every tier, radius_km and limit absent,
\* zero, negative or positive; and two categories, one of them unknown or not, merged
\* or kept apart, within 2 km and within 50 m, where the open data has nothing
FnSearchInputs ==
    { [categories |-> <<"cafe">>, place |-> "shibuya"] @@ t @@ r @@ l :
        t \in TierOpts,
        r \in { EmptyDict, [radius_km |-> 0], [radius_km |-> -1000], [radius_km |-> 2000] },
        l \in { EmptyDict, [limit |-> 0], [limit |-> -5], [limit |-> 50] } }
    \cup { [categories |-> cats, place |-> "shibuya", radius_km |-> r] @@ u :
             cats \in { <<"cafe", "park">>, <<"cafe", "zoo">> },
             r \in {50, 2000},
             u \in { EmptyDict, [union |-> TRUE], [union |-> FALSE] } }

\* arguments a caller can pass in trip mode: every tier with the three ranged
\* arguments absent or given, every days and per_day in and around their ranges, and
\* every pace with every per_day over two categories
FnTripInputs ==
    { [place |-> "ueno", interests |-> <<"park">>] @@ t @@ r @@ l @@ p :
        t \in TierOpts,
        r \in { EmptyDict, [radius_km |-> 0], [radius_km |-> 4000] },
        l \in { EmptyDict, [limit |-> -5], [limit |-> 50] },
        p \in { EmptyDict, [per_day |-> 4] } }
    \cup { [place |-> "ueno", interests |-> <<"park">>] @@ d @@ [per_day |-> n] :
             d \in {EmptyDict} \cup { [days |-> k] : k \in 0..15 },
             n \in 0..13 }
    \cup { [place |-> "ueno", interests |-> <<"cafe", "park">>, days |-> k, per_day |-> n] :
             k \in 1..3, n \in {1, 2, 6} }
    \cup { [place |-> "ueno", interests |-> <<"cafe", "park">>, days |-> 1, per_day |-> n,
             pace |-> pace] :
             n \in 1..12, pace \in {"relaxed", "standard", "packed"} }

FnInputs(m) == IF m = "search" THEN FnSearchInputs ELSE FnTripInputs

\* result.stats of a search: counts per layer
FnStats ==
    {EmptyDict}
    \cup [{"union"} -> {0, 1, 2, 3, 5}]
    \cup [{"cafe"} -> {0, 1, 2, 3, 5}]
    \cup [{"cafe", "park"} -> {0, 1, 2, 3, 5}]

\* an itinerary of d days with c items a day, the last day with c_last
FnItinerary(d, c, c_last) ==
    [i \in 1..d |-> [day |-> i,
                     items |-> [j \in 1..(IF i = d THEN c_last ELSE c) |-> [category |-> "park"]]]]

\* result.itinerary of a trip over the days asked for
FnItineraries(a) ==
    LET d == ClampDays(GetOr(a, "days", 1))
    IN { FnItinerary(d, c, c) : c \in 0..12 }
       \cup { FnItinerary(d, c, c - 1) : c \in 1..12 }

\* the results a validator can be handed
FnResults(m, a) ==
    IF m = "search" THEN { [stats |-> st, result_type |-> "search"] : st \in FnStats }
    ELSE { [itinerary |-> it, result_type |-> "trip"] : it \in FnItineraries(a) }

FnInit ==
    /\ STORE = EmptyDict
    /\ clock = 1
    /\ endpoint = "none"
    /\ pc = "fn_input"
    /\ mode \in {"search", "trip"}
    /\ args \in FnInputs(mode)
    /\ messages = <<>>
    /\ nudge_used = FALSE
    /\ step = 0
    /\ pending = <<>>
    /\ last_result = EmptyDict
    /\ last_reason = ""
    /\ validation = EmptyDict
    /\ attempt = 0
    /\ chain = EmptyDict
    /\ response = EmptyDict
    /\ lookup = EmptyDict
    /\ log = <<>>

\* services.apply_range_defaults on the caller's arguments
FnDefaults ==
    /\ pc = "fn_input"
    /\ args' = apply_range_defaults(args, mode)
    /\ log' = << [ev |-> "input", args |-> args] >>
    /\ pc' = "fn_ready"
    /\ UNCHANGED <<STORE, clock, endpoint, mode, messages, nudge_used, step, pending, last_result,
                   last_reason, validation, attempt, chain, response, lookup>>

\* the revision before the next attempt: the first retry, then the second
FnRevise ==
    /\ pc \in {"fn_ready", "fn_revised"}
    /\ attempt < MAX_ITERS - 1
    /\ attempt' = attempt + 1
    /\ args' = revise_args(mode, args, attempt + 1)
    /\ log' = Append(log, [ev |-> "revised", attempt |-> attempt + 1, args |-> args])
    /\ pc' = "fn_revised"
    /\ UNCHANGED <<STORE, clock, endpoint, mode, messages, nudge_used, step, pending, last_result,
                   last_reason, validation, chain, response, lookup>>

\* _run_tool_by_mode on the arguments in hand
FnRunTool ==
    /\ pc \in {"fn_ready", "fn_revised"}
    /\ \E o \in _run_tool_by_mode(STORE, clock, mode, args) :
         IF o["raised"]
         THEN /\ pc' = "fn_raised"
              /\ UNCHANGED <<STORE, clock, last_result>>
         ELSE /\ STORE' = o["store"]
              /\ clock' = o["now"]
              /\ last_result' = o["result"]
              /\ pc' = "fn_ran"
    /\ UNCHANGED <<endpoint, mode, messages, nudge_used, step, pending, args, last_reason,
                   validation, attempt, chain, response, lookup, log>>

\* the validator of the mode when the judgment capability gives nothing usable
FnValidate ==
    /\ pc \in {"fn_ready", "fn_revised"}
    /\ \E result \in FnResults(mode, args) :
         /\ last_result' = result
         /\ validation' = validate_result(mode, args, result, Unavailable)
    /\ pc' = "fn_validated"
    /\ UNCHANGED <<STORE, clock, endpoint, mode, messages, nudge_used, step, pending, args,
                   last_reason, attempt, chain, response, lookup, log>>

FnNext ==
    \/ FnDefaults
    \/ FnRevise
    \/ FnRunTool
    \/ FnValidate

FnSpec == FnInit /\ [][FnNext]_vars

-----------------------------------------------------------------------------
(* Reading the history of the loop *)

IsRun(e) == e["ev"] = "run"
IsValidate(e) == e["ev"] = "validate"

\* the tool executions and the validations of the request, in order
Runs == SelectSeq(log, IsRun)
Validations == SelectSeq(log, IsValidate)

\* the request went past the chain, into the validation-retry loop
ReachedLoop == log # <<>>

Finalized == Has(response, "success") /\ response["success"]
Escalated == Has(response, "require_review") /\ response["require_review"]
Exhausted == Has(response, "success") /\ ~response["success"] /\ ~Has(response, "require_review")
RequestFailed == Has(response, "error")

Indicator(b) == IF b THEN 1 ELSE 0

\* the verdict in hand rejected the action
Rejected == Has(validation, "action_ok") /\ validation["action_ok"] = FALSE

\* all of the attempts ran and none met the goal
AllUnmet ==
    /\ pc = "done"
    /\ Len(Validations) = 3
    /\ \A i \in 1..3 : Validations[i]["outcome"] = "unmet"

NudgeCount == Cardinality({i \in 1..Len(messages) : messages[i] = [role |-> "user", content |-> "nudge"]})

-----------------------------------------------------------------------------
(* The orchestration chain *)

\* C1 (as amended): the model is consulted at most 6 times in one chain. A chain
\* that yields no result ends with 'tool steps exceeded', with 'no tool calls', or
\* with the error of a tool that raised; it ends with 'tool steps exceeded' exactly
\* when its sixth iteration completes: the sixth response has no tool call and the
\* nudge was not yet used, or the last call of the sixth turn returns a result that
\* is not terminal.
C1_StepsBounded ==
    /\ [](step <= 6)
    /\ []((pc = "done" /\ endpoint \in {"query", "trip"} /\ ~Has(chain, "result")) =>
            \/ Has(chain, "exception") /\ response = HttpError(500, "tool error")
            \/ Has(chain, "error") /\ chain["error"] \in {"tool steps exceeded", "no tool calls"})
    /\ [][(Has(chain', "error") /\ ~Has(chain, "error")) =>
            /\ ~Has(chain', "result")
            /\ chain'["error"] \in {"tool steps exceeded", "no tool calls"}
            /\ (chain'["error"] = "tool steps exceeded") <=>
                  \/ (pc = "await_model" /\ step = 5 /\ ~nudge_used)
                  \/ (pc = "tool_executing" /\ step = 6 /\ Len(pending) = 1)]_vars

C1_Witness == pc = "done" /\ Has(chain, "error") /\ chain["error"] = "tool steps exceeded"

\* C1 (as stated): a chain that yields no 'search' or 'trip' result ends with the
\* 'tool steps exceeded' failure.
C1_Original ==
    (pc = "done" /\ endpoint \in {"query", "trip"} /\ ~Has(chain, "result")) =>
        (Has(chain, "error") /\ chain["error"] = "tool steps exceeded")

\* C2: the transcript of a chain holds the corrective message at most once, and a
\* response without tool calls that comes when the nudge was already used ends the
\* chain with 'no tool calls', whatever was executed since the nudge.
C2_NudgeOnce ==
    /\ [](NudgeCount <= 1)
    /\ [][(pc = "await_model" /\ nudge_used /\ pc' # "tool_executing") =>
            (pc' = "done" /\ Has(chain', "error") /\ chain'["error"] = "no tool calls")]_vars

\* a chain that executed a tool and then failed for want of tool calls
C2_Witness ==
    /\ pc = "done"
    /\ Has(chain, "error") /\ chain["error"] = "no tool calls"
    /\ STORE # EmptyDict

\* the index of the assistant message of the turn being executed
TurnStart == CHOOSE j \in 1..Len(messages) :
                /\ Has(messages[j], "tool_calls")
                /\ \A k \in (j + 1)..Len(messages) : ~Has(messages[k], "tool_calls")

\* C3: while a turn is executed, the transcript after the turn's message holds the
\* results of the calls executed so far, one per call in the listed order, and what
\* is left to execute is the rest of the list; the model is consulted again only
\* when every call of the turn has its result; the chain goes on after a call only
\* when its result is not terminal, a terminal result is returned as the result of
\* the chain by the call listed first among those left, and once the chain has
\* returned neither a tool of the chain runs nor is the model consulted again.
C3_InOrder ==
    /\ [](pc = "tool_executing" =>
            LET batch == messages[TurnStart]["tool_calls"]
                executed == Len(messages) - TurnStart
            IN /\ executed < Len(batch)
               /\ pending = SubSeq(batch, executed + 1, Len(batch))
               /\ \A i \in 1..executed :
                    /\ messages[TurnStart + i]["role"] = "tool"
                    /\ messages[TurnStart + i]["tool_call_id"] = batch[i]["id"])
    /\ []((pc = "await_model" /\ Has(messages[Len(messages)], "tool_call_id")) =>
            Len(messages) - TurnStart = Len(messages[TurnStart]["tool_calls"]))
    /\ [][(pc = "tool_executing" /\ pc' \in {"tool_executing", "await_model"}) =>
            /\ Len(messages') = Len(messages) + 1
            /\ ~IsTerminal(messages'[Len(messages')]["content"])]_vars
    /\ [][(pc = "tool_executing" /\ pc' = "validate") =>
            /\ IsTerminal(chain'["result"])
            /\ chain'["tool_name"] = pending[1]["name"]
            /\ last_result' = chain'["result"]]_vars
    /\ [][(pc \in {"validate", "run_tool"}) => (pc' \notin {"tool_executing", "await_model"})]_vars

\* the second call of a turn is about to run and the result of the first is recorded
C3_Witness ==
    /\ pc = "tool_executing"
    /\ Len(pending) = 1
    /\ messages[Len(messages)]["role"] = "tool"
    /\ Len(messages[TurnStart]["tool_calls"]) = 2

-----------------------------------------------------------------------------
(* The validation-retry loop *)

\* the tool execution of attempt n, when one is recorded
HasRun(n) == \E i \in 1..Len(Runs) : Runs[i]["attempt"] = n
RunOf(n) == Runs[CHOOSE i \in 1..Len(Runs) : Runs[i]["attempt"] = n]
LastRun == Runs[Len(Runs)]

\* C4 (as amended): a request that reaches the loop is validated at most 3 times,
\* the k-th validation being that of attempt k, and ends in exactly one of Finalized,
\* Escalate, Exhausted or a failed request (HTTP 400, when a tool execution of the
\* loop raises). Finalized and Escalate report the number of the attempt validated
\* last; Exhausted follows the third validation and reports 3.
C4_LoopOutcome ==
    /\ Len(Validations) <= 3
    /\ \A k \in 1..Len(Validations) : Validations[k]["attempt"] = k
    /\ (pc = "done" /\ ReachedLoop) =>
         /\ Indicator(Finalized) + Indicator(Escalated) + Indicator(Exhausted)
              + Indicator(RequestFailed) = 1
         /\ (Finalized \/ Escalated) =>
              /\ Len(Validations) >= 1
              /\ response["attempts"] = Len(Validations)
              /\ Validations[Len(Validations)]["outcome"] = (IF Finalized THEN "success" ELSE "escalate")
         /\ Exhausted => (response["attempts"] = 3 /\ AllUnmet)
         /\ RequestFailed => (response = HttpError(400, "tool error") /\ LastRun["status"] = "raised")

C4_Witness == pc = "done" /\ ReachedLoop /\ Exhausted /\ response["attempts"] = 3

\* C4 (as stated): a request that reaches the loop ends in exactly one of Finalized,
\* Escalate and Exhausted.
C4_Original ==
    (pc = "done" /\ ReachedLoop) =>
        Indicator(Finalized) + Indicator(Escalated) + Indicator(Exhausted) = 1

\* C5: once the verdict of attempt n says action_ok = false the request is over:
\* the rejected validation is the last thing the loop did (no revision, no tool after
\* it), and the response has success = false, require_review = true, attempts = n and
\* a review_context of the mode, the user's text, the arguments the tool of attempt n
\* ran with and its result.
C5_EscalateEndsLoop ==
    Rejected =>
        /\ pc = "done"
        /\ log[Len(log)] = ValidateEntry(attempt, "escalate")
        /\ Len(Validations) = attempt
        /\ LastRun["attempt"] = attempt /\ LastRun["status"] = "returned"
        /\ response["success"] = FALSE
        /\ response["require_review"] = TRUE
        /\ response["attempts"] = attempt
        /\ response["review_context"] =
             [mode |-> mode, user_text |-> USER_TEXT, args |-> LastRun["args"], last_result |-> last_result]
        /\ last_result["store_id"] = LastRun["store_id"]

\* a rejection on a retry
C5_Witness == Rejected /\ pc = "done" /\ attempt = 2 /\ response["attempts"] = 2

\* C6: after an Escalate the store has no entry under the id of the rejected result,
\* the response's store_id is null, and a geojson lookup of that id answers 404.
C6_EscalateFreesEntry ==
    (Rejected /\ pc = "done") =>
        /\ LastRun["store_id"] # None
        /\ LastRun["store_id"] \notin DOMAIN STORE
        /\ response["store_id"] = None
        /\ Has(lookup, "store_id") =>
             /\ lookup["store_id"] = LastRun["store_id"]
             /\ lookup["answer"] = HttpError(404, "store_id not found")

C6_Witness ==
    /\ Rejected /\ pc = "done"
    /\ Has(lookup, "store_id") /\ lookup["store_id"] = LastRun["store_id"]
    /\ lookup["answer"]["error"] = 404

\* C7 (as amended): when the 3 attempts all end unmet, the response has
\* success = false, a failure_reason equal to the reason of the third verdict, or to
\* the fixed message of an unmet goal when that reason is empty, and the store_id of
\* the third attempt's result, under which the store still holds an entry that a
\* geojson lookup finds.
C7_ExhaustedKeepsLast ==
    AllUnmet =>
        /\ response["success"] = FALSE
        /\ response["failure_reason"] =
             (IF validation["reason"] = "" THEN GOAL_UNMET ELSE validation["reason"])
        /\ response["evaluation"] = validation
        /\ HasRun(3) /\ RunOf(3)["store_id"] # None
        /\ response["store_id"] = RunOf(3)["store_id"]
        /\ response["store_id"] \in DOMAIN STORE
        /\ Has(lookup, "store_id") =>
             /\ lookup["store_id"] = response["store_id"]
             /\ lookup["answer"]["type"] = "FeatureCollection"

\* exhaustion on a verdict that gives no reason, with the entry looked up afterwards
C7_Witness ==
    /\ AllUnmet
    /\ validation["reason"] = ""
    /\ response["failure_reason"] = GOAL_UNMET
    /\ Has(lookup, "store_id")

\* C7 (as stated): on exhaustion failure_reason is the reason of the third verdict.
C7_Original == AllUnmet => response["failure_reason"] = validation["reason"]

\* C8 (as stated): the radius_km and the limit a tool runs with in attempt n+1 are
\* not smaller than those of attempt n.
C8_Monotonic ==
    \A i \in 1..Len(Runs), j \in 1..Len(Runs) :
        (/\ Runs[j]["attempt"] = Runs[i]["attempt"] + 1
         /\ Runs[i]["status"] = "returned" /\ Runs[j]["status"] = "returned") =>
            /\ Runs[j]["args"]["radius_km"] >= Runs[i]["args"]["radius_km"]
            /\ Runs[j]["args"]["limit"] >= Runs[i]["args"]["limit"]

\* C9: the arguments of every retry, which a revision produced, have radius_km <= 15
\* and limit <= 500 in search mode, radius_km <= 20 and limit <= 800 in trip mode
\* (radius_km counted in metres).
C9_RevisionCaps ==
    \A i \in 1..Len(Runs) :
        Runs[i]["attempt"] >= 2 =>
            /\ Runs[i]["args"]["radius_km"] <= (IF mode = "search" THEN 15000 ELSE 20000)
            /\ Runs[i]["args"]["limit"] <= (IF mode = "search" THEN 500 ELSE 800)

\* a radius above the cap before the revision, at the cap after it
C9_Witness ==
    /\ mode = "search" /\ HasRun(1) /\ HasRun(2)
    /\ RunOf(1)["args"]["radius_km"] > 15000
    /\ RunOf(2)["args"]["radius_km"] = 15000
    /\ RunOf(2)["args"]["limit"] = 500

\* C10: in a loop that runs its 3 attempts, a flag among open_24h and wheelchair that
\* is set in attempt 1 is set in attempt 2 and false in attempt 3, on every endpoint.
C10_FlagsRelaxed ==
    (HasRun(1) /\ HasRun(2) /\ HasRun(3)) =>
        \A f \in {"open_24h", "wheelchair"} :
            Truthy(RunOf(1)["args"], f) =>
                /\ Truthy(RunOf(2)["args"], f)
                /\ Has(RunOf(3)["args"], f) /\ RunOf(3)["args"][f] = FALSE

C10_Witness ==
    /\ endpoint = "review"
    /\ HasRun(1) /\ HasRun(2) /\ HasRun(3)
    /\ Truthy(RunOf(1)["args"], "wheelchair")
    /\ Truthy(RunOf(2)["args"], "wheelchair")
    /\ RunOf(3)["args"]["wheelchair"] = FALSE

-----------------------------------------------------------------------------
(* The argument functions *)

\* the revisions recorded so far, and the arguments a revision produced
IsRevised(e) == e["ev"] = "revised"
Revisions == SelectSeq(log, IsRevised)
ArgsAfter(k) == IF k < Len(Revisions) THEN Revisions[k + 1]["args"] ELSE args

\* C11 (as stated): in trip mode the first retry's revision leaves per_day as it is,
\* and the second retry's revision of a per_day p in 1..12 gives max(3, floor(0.8 p)),
\* which is not greater than p.
C11_PerDayShrinks ==
    mode = "trip" =>
        \A k \in 1..Len(Revisions) :
            LET before == Revisions[k]["args"]["per_day"]
                after == ArgsAfter(k)["per_day"]
            IN before \in 1..12 =>
                 IF Revisions[k]["attempt"] = 1 THEN after = before
                 ELSE after = Max(3, (before * 8) \div 10) /\ after <= before

-----------------------------------------------------------------------------
(* The validators without their judge *)

FallbackVerdict(m) == pc = "fn_validated" /\ mode = m

\* the items of each day of the itinerary handed to the trip validator
DayCounts == [d \in 1..Len(last_result["itinerary"]) |-> Len(last_result["itinerary"][d]["items"])]
Spots == SumOver(DayCounts, DOMAIN DayCounts)

\* C12: when the judge gives no usable verdict, the search validator answers
\* action_ok = true and success exactly when the counts of result.stats sum to 5 or more.
C12_SearchFallback ==
    FallbackVerdict("search") =>
        /\ validation["action_ok"] = TRUE
        /\ validation["success"] = (SumOver(last_result["stats"], DOMAIN last_result["stats"]) >= 5)

\* stats {cafe: 2, park: 1} are judged unmet
C12_Witness ==
    /\ FallbackVerdict("search")
    /\ last_result["stats"] = [cafe |-> 2, park |-> 1]
    /\ validation["success"] = FALSE
    /\ validation["action_ok"] = TRUE

\* C13: when the judge gives no usable verdict, the trip validator answers action_ok = true
\* and, for days in 1..14 and per_day in 1..12, success exactly when the itinerary holds at
\* least max(3, floor(0.95 days per_day)) spots and every day at least max(1, floor(0.8 per_day)).
C13_TripFallback ==
    FallbackVerdict("trip") =>
        /\ validation["action_ok"] = TRUE
        /\ LET days == GetOr(args, "days", 1)
               per_day == args["per_day"]
           IN (days \in 1..14 /\ per_day \in 1..12) =>
                validation["success"] =
                    (/\ Spots >= Max(3, (days * per_day * 95) \div 100)
                     /\ \A d \in DOMAIN DayCounts : DayCounts[d] >= Max(1, (per_day * 8) \div 10))

\* one day of six spots asked for with per_day 6 is judged met
C13_Witness ==
    /\ FallbackVerdict("trip")
    /\ Has(args, "days") /\ args["days"] = 1 /\ args["per_day"] = 6
    /\ Spots = 6
    /\ validation["success"] = TRUE

-----------------------------------------------------------------------------
(* Range-tier defaults *)

\* the caller's arguments, and the state just after the defaults were applied to them
CallerArgs == log[1]["args"]
DefaultsApplied == pc = "fn_ready" /\ Len(log) = 1
Ranged(m) == IF m = "trip" THEN {"radius_km", "limit", "per_day"} ELSE {"radius_km", "limit"}

\* C14: applying the range-tier defaults keeps every argument the caller supplied,
\* radius_km, limit and per_day included, for every tier, and adds only the ranged
\* arguments that were absent, with the values of the tier's table.
C14_DefaultsFillAbsent ==
    DefaultsApplied =>
        /\ \A k \in DOMAIN CallerArgs : Has(args, k) /\ args[k] = CallerArgs[k]
        /\ DOMAIN args = DOMAIN CallerArgs \cup Ranged(mode)
        /\ LET r == RangeOf(CallerArgs)
           IN /\ ~Has(CallerArgs, "radius_km") =>
                    args["radius_km"] = IF mode = "search" THEN SearchRadiusDefault(r) ELSE TripRadiusDefault(r)
              /\ ~Has(CallerArgs, "limit") =>
                    args["limit"] = IF mode = "search" THEN SearchLimitDefault(r) ELSE TripLimitDefault(r)
              /\ (mode = "trip" /\ ~Has(CallerArgs, "per_day")) => args["per_day"] = TripPerDayDefault(r)

\* a wide-tier search whose caller gave the radius and left the limit out
C14_Witness ==
    /\ DefaultsApplied
    /\ mode = "search"
    /\ Has(CallerArgs, "range") /\ CallerArgs["range"] = "wide"
    /\ Has(CallerArgs, "radius_km") /\ args["radius_km"] = 2000
    /\ ~Has(CallerArgs, "limit") /\ args["limit"] = 300


\* the arguments a tool that ran recorded: in its result and in the entry it stored
ToolRan == pc = "fn_ran"
RecordedArgs == {last_result["args"]} \cup { STORE[id]["meta"]["args"] : id \in DOMAIN STORE }

\* C15 (as stated): the radius_km and limit of the arguments a search or trip tool ran
\* with, recorded in its result and in its store entry, are strictly positive whatever
\* the caller supplied.
C15_RangedPositive ==
    ToolRan => \A a \in RecordedArgs : a["radius_km"] > 0 /\ a["limit"] > 0


\* C16 (as stated): after a trip tool ran, the days and per_day carried by the arguments
\* it returns, those handed to the validator and to the revision, lie in 1..14 and 1..12
\* whatever integers the caller passed.
C16_TripArgsClamped ==
    (ToolRan /\ mode = "trip") =>
        LET a == last_result["args"]
        IN /\ Has(a, "days") => a["days"] \in 1..14
           /\ Has(a, "per_day") => a["per_day"] \in 1..12

-----------------------------------------------------------------------------
(* Unknown categories *)

UnknownIn(names) == \E i \in DOMAIN names : names[i] \notin CATEGORY_MAP

\* the arguments name a category CATEGORY_MAP does not hold
NamesUnknownCategory(a) ==
    \/ Has(a, "categories") /\ UnknownIn(a["categories"])
    \/ Has(a, "category") /\ a["category"] \notin CATEGORY_MAP
    \/ Has(a, "interests") /\ UnknownIn(a["interests"])

\* C17 (as stated): an unknown category in the arguments of a tool call is skipped and
\* does not make the call fail: whenever the chain is about to execute such a call,
\* the call can return a result.
C17_UnknownCategorySkipped ==
    (pc = "tool_executing" /\ NamesUnknownCategory(NextCall(pending)["arguments"])) =>
        \E o \in _call_tool(STORE, clock, NextCall(pending)["name"], NextCall(pending)["arguments"]) :
            ~o["raised"]

-----------------------------------------------------------------------------
(* The result store *)

\* a step that puts: some id holds an entry it did not hold before the step
Puts == \E id \in DOMAIN STORE' : id \notin DOMAIN STORE \/ STORE'[id] # STORE[id]

\* C18 (as stated): every put returns an id the store was never given before, so a step
\* that puts adds an id to the ids the store holds.
C18_FreshId ==
    [][Puts => (DOMAIN STORE' \ DOMAIN STORE) # {}]_vars

\* C19 (as stated): an entry is never changed after its creation: as long as its id is
\* in the store, the id resolves to the same layers and metadata.
C19_EntryImmutable ==
    [][\A id \in DOMAIN STORE \cap DOMAIN STORE' : STORE'[id] = STORE[id]]_vars


\* the chain is about to execute a merge or an itinerary construction that names an id
\* the store does not hold
MissingIdCall ==
    /\ pc = "tool_executing"
    /\ LET tc == NextCall(pending)
           a == tc["arguments"]
       IN \/ /\ tc["name"] = "merge_search_results"
             /\ Has(a, "store_ids")
             /\ \E i \in DOMAIN a["store_ids"] : a["store_ids"][i] \notin DOMAIN STORE
          \/ /\ tc["name"] = "build_trip_itinerary"
             /\ Has(a, "candidate_id")
             /\ a["candidate_id"] \notin DOMAIN STORE

\* C20: a merge over a list with an id the store does not hold, and an itinerary
\* construction on a candidate_id the store does not hold, fail with the tool's error,
\* and the store is left as it was: no entry created, changed or removed.
C20_MissingIdFails ==
    [][MissingIdCall =>
         /\ Has(chain', "exception")
         /\ chain'["exception"] = NextCall(pending)["name"]
         /\ pc' = "done"
         /\ STORE' = STORE]_vars

\* a merge failed on a missing id while the store held an entry
C20_Witness ==
    /\ pc = "done"
    /\ Has(chain, "exception")
    /\ chain["exception"] = "merge_search_results"
    /\ STORE # EmptyDict

-----------------------------------------------------------------------------
(* Searches and merges on one store: merge_search_results over the entries that
   the search tools wrote *)

\* searches and merges in one behaviour
MaxOps == 4

\* the searches whose entries are merged: one category each, and two categories kept apart
MgSearchCalls ==
    { Call("search_category_tokyo", [category |-> "cafe", place |-> "shibuya"]),
      Call("search_category_tokyo", [category |-> "park", place |-> "shibuya"]),
      Call("search_osm_tokyo", [categories |-> <<"park", "cafe">>, place |-> "shibuya",
                                open_24h |-> TRUE, union |-> FALSE]) }

\* store_ids of a merge: one or two ids of the store, in either order, repeated or not
MgIdLists(store) ==
    { <<x>> : x \in DOMAIN store } \cup { <<x, y>> : x \in DOMAIN store, y \in DOMAIN store }

MgInit ==
    /\ STORE = EmptyDict
    /\ clock = 1
    /\ endpoint = "none"
    /\ pc = "mg"
    /\ mode = "search"
    /\ args = EmptyDict
    /\ messages = <<>>
    /\ nudge_used = FALSE
    /\ step = 0
    /\ pending = <<>>
    /\ last_result = EmptyDict
    /\ last_reason = ""
    /\ validation = EmptyDict
    /\ attempt = 0
    /\ chain = EmptyDict
    /\ response = EmptyDict
    /\ lookup = EmptyDict
    /\ log = <<>>

\* a search tool writes its entry
MgSearch ==
    /\ Len(log) < MaxOps
    /\ \E tc \in MgSearchCalls :
         \E o \in _call_tool(STORE, clock, tc["name"], tc["arguments"]) :
            /\ ~o["raised"]
            /\ STORE' = o["store"]
            /\ clock' = o["now"]
            /\ args' = tc["arguments"]
            /\ last_result' = o["result"]
            /\ log' = Append(log, [ev |-> "search", store_id |-> o["result"]["store_id"]])
    /\ UNCHANGED <<endpoint, pc, mode, messages, nudge_used, step, pending, last_reason,
                   validation, attempt, chain, response, lookup>>

\* merge_search_results on ids of the store, in a millisecond of its own; the history
\* keeps the entries it read and the entry it wrote
MgMerge ==
    /\ Len(log) < MaxOps
    /\ \E ids \in MgIdLists(STORE), u \in BOOLEAN :
         \E o \in _call_tool(STORE, clock, "merge_search_results", [store_ids |-> ids, union |-> u]) :
            /\ ~o["raised"]
            /\ o["now"] > clock
            /\ STORE' = o["store"]
            /\ clock' = o["now"]
            /\ args' = [store_ids |-> ids, union |-> u]
            /\ last_result' = o["result"]
            /\ log' = Append(log, [ev |-> "merge", ids |-> ids, union |-> u,
                                   inputs |-> [i \in DOMAIN ids |-> STORE[ids[i]]],
                                   store_id |-> o["result"]["store_id"],
                                   entry |-> o["store"][o["result"]["store_id"]]])
    /\ UNCHANGED <<endpoint, pc, mode, messages, nudge_used, step, pending, last_reason,
                   validation, attempt, chain, response, lookup>>

MgNext == MgSearch \/ MgMerge

MergeSpec == MgInit /\ [][MgNext]_vars

-----------------------------------------------------------------------------
(* Merging *)

\* the key under which two records are the same place
RecordKey(r) == << Round6(r["lat"]), Round6(r["lon"]), IF Has(r, "name") THEN r["name"] ELSE None >>
KeysOf(rows) == { RecordKey(rows[i]) : i \in DOMAIN rows }
EntryKeys(entry) == UNION { KeysOf(entry["layers"][l]["rows"]) : l \in DOMAIN entry["layers"] }
InputKeys(e) == UNION { EntryKeys(e["inputs"][i]) : i \in DOMAIN e["inputs"] }
IsUnionMerge(e) == e["ev"] = "merge" /\ e["union"]
MergedRows(e) == e["entry"]["layers"][1]["rows"]

\* C21: the entry a merge with union = true writes has exactly one layer, labelled
\* 'union'; no two of its records share the key (latitude and longitude rounded to 6
\* decimals, name), and every key of a layer of an input entry is the key of one record.
C21_UnionDeduped ==
    \A k \in DOMAIN log :
        IsUnionMerge(log[k]) =>
            /\ Len(log[k]["entry"]["layers"]) = 1
            /\ log[k]["entry"]["layers"][1]["label"] = "union"
            /\ \A i, j \in DOMAIN MergedRows(log[k]) :
                 RecordKey(MergedRows(log[k])[i]) = RecordKey(MergedRows(log[k])[j]) => i = j
            /\ KeysOf(MergedRows(log[k])) = InputKeys(log[k])

\* two different entries that both hold the point named "A" merge into one record of it
C21_Witness ==
    \E k \in DOMAIN log :
        /\ IsUnionMerge(log[k])
        /\ Len(log[k]["ids"]) = 2
        /\ log[k]["ids"][1] # log[k]["ids"][2]
        /\ \A i \in 1..2 :
             \E l \in DOMAIN log[k]["inputs"][i]["layers"] :
                \E n \in DOMAIN log[k]["inputs"][i]["layers"][l]["rows"] :
                   RecordKey(log[k]["inputs"][i]["layers"][l]["rows"][n]) = <<35700900, 139700000, "A">>
        /\ Cardinality({ n \in DOMAIN MergedRows(log[k]) :
                           RecordKey(MergedRows(log[k])[n]) = <<35700900, 139700000, "A">> }) = 1


\* the same records, as many of them
SameRecords(rows1, rows2) ==
    /\ { rows1[i] : i \in DOMAIN rows1 } = { rows2[i] : i \in DOMAIN rows2 }
    /\ Len(rows1) = Len(rows2)

\* a merge of <<x>> and a merge of <<x, x>> of the same entry, both with union = true
MergedTwice(j, k) ==
    /\ IsUnionMerge(log[j]) /\ IsUnionMerge(log[k])
    /\ Len(log[j]["ids"]) = 1
    /\ log[k]["ids"] = << log[j]["ids"][1], log[j]["ids"][1] >>
    /\ log[k]["inputs"][1] = log[j]["inputs"][1]

\* a merge with union = true of the entry that an earlier merge with union = true wrote
MergedAgain(j, k) ==
    /\ IsUnionMerge(log[j]) /\ IsUnionMerge(log[k])
    /\ log[k]["ids"] = << log[j]["store_id"] >>
    /\ log[k]["inputs"][1] = log[j]["entry"]

\* C22: with union = true, merging an entry with itself gives the records that merging
\* it alone gives, and merging the entry of a union merge once more gives its records again.
C22_DedupIdempotent ==
    \A j, k \in DOMAIN log :
        (MergedTwice(j, k) \/ MergedAgain(j, k)) => SameRecords(MergedRows(log[j]), MergedRows(log[k]))

\* an entry with two records of one key merged alone and with itself
C22_Witness ==
    \E j, k \in DOMAIN log :
        /\ MergedTwice(j, k)
        /\ Len(MergedRows(log[j])) < Len(log[j]["inputs"][1]["layers"][1]["rows"])


\* two merges of the same two entries in the two orders, with the same union
Swapped(j, k) ==
    /\ log[j]["ev"] = "merge" /\ log[k]["ev"] = "merge"
    /\ log[j]["union"] = log[k]["union"]
    /\ Len(log[j]["ids"]) = 2
    /\ log[k]["ids"] = << log[j]["ids"][2], log[j]["ids"][1] >>
    /\ log[k]["inputs"] = << log[j]["inputs"][2], log[j]["inputs"][1] >>

RecordsOf(entry, label) == LET rows == LayerRows(entry["layers"], label) IN { rows[i] : i \in DOMAIN rows }

\* C23 (as stated): merging two entries in either order gives, for either value of
\* union, the same layers with the same set of records in each, compared as whole records.
C23_MergeCommutes ==
    \A j, k \in DOMAIN log :
        Swapped(j, k) =>
            /\ LayerLabels(log[j]["entry"]["layers"]) = LayerLabels(log[k]["entry"]["layers"])
            /\ \A label \in LayerLabels(log[j]["entry"]["layers"]) :
                 RecordsOf(log[j]["entry"], label) = RecordsOf(log[k]["entry"], label)

-----------------------------------------------------------------------------
(* The itinerary *)

\* a trip tool ran: its itinerary, the candidates it was built from, and the clamped
\* days and per_day
TripRan == ToolRan /\ mode = "trip"
Itinerary == last_result["itinerary"]
Candidates == _collect_trip_candidates(args, Center, TripAnswers(args))
CandidateCount == SumOver([i \in DOMAIN Candidates |-> Len(Candidates[i]["rows"])], DOMAIN Candidates)
ItemCount(d) == Len(Itinerary[d]["items"])
ItemsBefore(d) == SumOver([e \in 1..(d - 1) |-> ItemCount(e)], 1..(d - 1))
DaysAsked == Max(1, Min(GetOr(args, "days", 1), 14))
PerDayAsked == Max(1, Min(GetOr(args, "per_day", 6), 12))

\* C24: every day of a built itinerary holds at most per_day items and at most the
\* candidates not yet consumed when the day starts, and the itinerary holds at most as
\* many items as the buckets hold candidates.
C24_ItineraryBounded ==
    TripRan =>
        /\ \A d \in DOMAIN Itinerary :
             /\ ItemCount(d) <= PerDayAsked
             /\ ItemCount(d) <= CandidateCount - ItemsBefore(d)
        /\ ItemsBefore(Len(Itinerary) + 1) <= CandidateCount

\* two buckets run out on the second of three days
C24_Witness ==
    /\ TripRan
    /\ Len(Candidates) = 2
    /\ Len(Itinerary) = 3
    /\ ItemCount(1) = PerDayAsked
    /\ ItemCount(2) > 0 /\ ItemCount(2) < PerDayAsked
    /\ ItemCount(3) = 0

\* C25: a built itinerary has exactly days entries, numbered 1..days in order, days
\* being the clamped day count, also when the candidates run out before the last day;
\* at standard pace the first item of every day that has one is at 09:00.
C25_DaysNumbered ==
    TripRan =>
        /\ Len(Itinerary) = DaysAsked
        /\ \A d \in DOMAIN Itinerary : Itinerary[d]["day"] = d
        /\ GetOr(args, "pace", "standard") = "standard" =>
             \A d \in DOMAIN Itinerary : ItemCount(d) > 0 => Itinerary[d]["items"][1]["time"] = "09:00"

\* fifteen days asked for: fourteen entries, the candidates gone after the first
C25_Witness ==
    /\ TripRan
    /\ Has(args, "days") /\ args["days"] = 15
    /\ Len(Itinerary) = 14
    /\ ItemCount(1) > 0 /\ Itinerary[1]["items"][1]["time"] = "09:00"
    /\ ItemCount(14) = 0

-----------------------------------------------------------------------------
(* The review endpoint *)

\* a review request enters its handler
ReviewEnters == Idle /\ endpoint' = "review" /\ clock' = clock + 1

\* C26: a review request whose text is empty after stripping, whose mode is neither
\* 'search' nor 'trip', or whose patch is not an object is answered with an error
\* before any tool runs: the store is as it was and nothing was run or validated.
\* Only a request with a text, a mode of the two and a patch that is an object goes on.
C26_InvalidReviewRejected ==
    [][ReviewEnters =>
         /\ STORE' = STORE
         /\ log' = <<>>
         /\ validation' = EmptyDict
         /\ \/ /\ pc' = "done"
               /\ response' \in { HttpError(400, "invalid review payload"),
                                  HttpError(400, "review parsing failed") }
               /\ attempt' = 0
            \/ /\ pc' = "run_tool"
               /\ Len(messages') = 1
               /\ messages'[1]["payload"]["review_text"] # ""
               /\ messages'[1]["payload"]["mode"] \in {"search", "trip"}
               /\ args' # NotADict]_vars

\* a review with a text and a mode whose patch was not an object
C26_Witness ==
    /\ endpoint = "review"
    /\ pc = "done"
    /\ attempt = 0
    /\ messages = << PatchRequest("trip", "wider") >>
    /\ response = HttpError(400, "review parsing failed")
    /\ log = <<>>


-----------------------------------------------------------------------------
(* Store writes of a request that fails *)

\* the request ended without a result: the chain failed, a tool raised, or the attempts
\* were used up
EndedInFailure == pc = "done" /\ (RequestFailed \/ Exhausted \/ Has(chain, "error"))

\* the verdict in hand is answered with Escalate
EscalateStep == pc = "validate" /\ Escalated'

-----------------------------------------------------------------------------
(* Summaries *)

\* a step that answers the request with a summary
AnswersWithSummary == pc # "done" /\ pc' = "done" /\ Has(response', "summary")

\* what the answer to a verdict is, the summary aside
ExpectedSuccess(v) == v["action_ok"] # FALSE /\ v["success"]
ExpectedReason(v) ==
    IF v["action_ok"] = FALSE THEN (IF v["reason"] = "" THEN ACTION_REJECTED ELSE v["reason"])
    ELSE IF v["success"] THEN ""
    ELSE IF v["reason"] = "" THEN GOAL_UNMET ELSE v["reason"]
ExpectedStoreId(v) == IF v["action_ok"] = FALSE THEN None ELSE GetOr(last_result, "store_id", None)
ExpectedStore(v) ==
    IF v["action_ok"] = FALSE
    THEN [id \in DOMAIN STORE \ {GetOr(last_result, "store_id", None)} |-> STORE[id]]
    ELSE STORE

\* C29: the summary is the text of the summarization or the fixed fallback message, and
\* nothing else of the answer depends on it: success, store_id, failure_reason, attempts
\* and the store are those the verdict, the last result and the attempt determine
\* (those of the extraction failure when the chain failed).
C29_SummaryFailureHarmless ==
    [][AnswersWithSummary =>
         /\ response'["summary"] \in {"summary", SUMMARY_FALLBACK}
         /\ IF pc = "validate"
            THEN /\ response'["success"] = ExpectedSuccess(validation')
                 /\ response'["failure_reason"] = ExpectedReason(validation')
                 /\ response'["attempts"] = attempt
                 /\ Has(response', "store_id") => response'["store_id"] = ExpectedStoreId(validation')
                 /\ endpoint \in {"query", "review"} => Has(response', "store_id")
                 /\ STORE' = ExpectedStore(validation')
            ELSE /\ response'["success"] = FALSE
                 /\ response'["failure_reason"] = EXTRACTION_FAILED
                 /\ DOMAIN response' = {"summary", "success", "failure_reason"}]_vars

\* a request that met its goal and whose summarization failed
C29_Witness ==
    /\ pc = "done"
    /\ Finalized
    /\ response["summary"] = SUMMARY_FALLBACK
    /\ response["attempts"] = 2
    /\ Has(response, "store_id") /\ response["store_id"] \in DOMAIN STORE


-----------------------------------------------------------------------------
(* Two requests handled at once: the handlers are plain functions that the server
   runs on worker threads, every one on the same services.STORE. A step is what a
   thread does up to and including one access to the store; the variables of a
   handler are kept once per request *)

Requests == {1, 2}

\* the tool call a request begins with: a search, a plan, or a merge of an entry
\* under an id given out so far, whether it is still in the store or not
CcCalls(ids) ==
    { Call("search_osm_tokyo", [categories |-> <<"cafe">>, place |-> "shibuya"]),
      Call("plan_trip_tokyo", [place |-> "ueno", interests |-> <<"cafe">>, days |-> 1, per_day |-> 2]) }
    \cup { Call("merge_search_results", [store_ids |-> <<x>>, union |-> TRUE]) : x \in ids }

CcModeOf(name) == IF name = "plan_trip_tokyo" THEN "trip" ELSE "search"

\* the ids the tools of request p were given, in order
Written(p) == { log[p][i]["store_id"] : i \in DOMAIN log[p] }

\* the millisecond of the last put of request p, 0 before its first
LastPut(p) == IF log[p] = <<>> THEN 0 ELSE log[p][Len(log[p])]["now"]

\* the milliseconds in which a put of request p can fall: that of the last put of
\* any request or the next one, and after the request's own last put
PutTimes(p) == { n \in {clock, clock + 1} : n > LastPut(p) }

CcInit ==
    /\ STORE = EmptyDict
    /\ clock = 1
    /\ endpoint = "none"
    /\ pc = [p \in Requests |-> "call"]
    /\ mode = [p \in Requests |-> "search"]
    /\ args = [p \in Requests |-> EmptyDict]
    /\ messages = <<>>
    /\ nudge_used = FALSE
    /\ step = 0
    /\ pending = <<>>
    /\ last_result = [p \in Requests |-> EmptyDict]
    /\ last_reason = ""
    /\ validation = EmptyDict
    /\ attempt = [p \in Requests |-> 0]
    /\ chain = EmptyDict
    /\ response = EmptyDict
    /\ lookup = EmptyDict
    /\ log = [p \in Requests |-> <<>>]

\* what a tool outcome o of request p, called with arguments a, leaves behind
CcAfterTool(p, o, a) ==
    IF o["raised"]
    THEN /\ pc' = [pc EXCEPT ![p] = "failed"]
         /\ UNCHANGED <<STORE, clock, args, last_result, log>>
    ELSE /\ pc' = [pc EXCEPT ![p] = "validate"]
         /\ STORE' = o["store"]
         /\ clock' = o["now"]
         /\ args' = [args EXCEPT ![p] = a]
         /\ last_result' = [last_result EXCEPT ![p] = o["result"]]
         /\ log' = [log EXCEPT ![p] = Append(@, [store_id |-> o["result"]["store_id"],
                                                  now |-> o["now"]])]

\* _call_tool on the call that ends the chain of request p
CcCallTool(p) ==
    /\ pc[p] = "call"
    /\ \E tc \in CcCalls(Written(1) \cup Written(2)), n \in PutTimes(p) :
         \E o \in _call_tool(STORE, n - 1, tc["name"], tc["arguments"]) :
            /\ IF o["raised"] THEN TRUE ELSE o["now"] = n
            /\ mode' = [mode EXCEPT ![p] = CcModeOf(tc["name"])]
            /\ attempt' = [attempt EXCEPT ![p] = 1]
            /\ CcAfterTool(p, o, IF o["raised"] THEN tc["arguments"] ELSE o["result"]["args"])
    /\ UNCHANGED <<endpoint, messages, nudge_used, step, pending, last_reason, validation,
                   chain, response, lookup>>

\* one validation of request p and what its handler does with the verdict
CcValidate(p) ==
    /\ pc[p] = "validate"
    /\ \E judge \in JudgeOutputs :
         LET v == validate_result(mode[p], args[p], last_result[p], judge) IN
           IF Escalates(v)
           THEN /\ STORE' = IF GetOr(last_result[p], "store_id", "") # ""
                            THEN StorePop(STORE, last_result[p]["store_id"])
                            ELSE STORE
                /\ pc' = [pc EXCEPT ![p] = "escalated"]
                /\ UNCHANGED attempt
           ELSE IF Succeeds(v)
           THEN /\ pc' = [pc EXCEPT ![p] = "finalized"]
                /\ UNCHANGED <<STORE, attempt>>
           ELSE IF HasNextAttempt(attempt[p])
           THEN /\ pc' = [pc EXCEPT ![p] = "run_tool"]
                /\ attempt' = [attempt EXCEPT ![p] = @ + 1]
                /\ UNCHANGED STORE
           ELSE /\ pc' = [pc EXCEPT ![p] = "exhausted"]
                /\ UNCHANGED <<STORE, attempt>>
    /\ UNCHANGED <<clock, endpoint, mode, messages, nudge_used, step, pending, args,
                   last_result, last_reason, validation, chain, response, lookup, log>>

\* the next attempt of request p: the arguments revised, the tool of the mode run
CcRunTool(p) ==
    /\ pc[p] = "run_tool"
    /\ LET revised == revise_args(mode[p], args[p], attempt[p] - 1) IN
         \E n \in PutTimes(p) :
           \E o \in _run_tool_by_mode(STORE, n - 1, mode[p], revised) :
              /\ IF o["raised"] THEN TRUE ELSE o["now"] = n
              /\ CcAfterTool(p, o, revised)
    /\ UNCHANGED <<endpoint, mode, messages, nudge_used, step, pending, last_reason,
                   validation, attempt, chain, response, lookup>>

CcNext == \E p \in Requests : CcCallTool(p) \/ CcValidate(p) \/ CcRunTool(p)

ConcSpec == CcInit /\ [][CcNext]_vars

-----------------------------------------------------------------------------
(* Concurrent requests *)

\* the step is one of request p
Acts(p) == pc'[p] # pc[p]

\* no id was given to a tool of each of the two requests
IdsDistinct == Written(1) \cap Written(2) = {}

\* the entries of request q that are in the store are there after the step, unchanged
KeepsEntriesOf(q) ==
    \A id \in Written(q) \cap DOMAIN STORE : id \in DOMAIN STORE' /\ STORE'[id] = STORE[id]

\* C30: as long as no store id was generated for both of two requests handled at
\* once, a step of one request, its Escalate included, leaves every entry the other
\* request wrote in the store and as it was
C30_NoInterference ==
    [][IdsDistinct' => \A p \in Requests : Acts(p) => \A q \in Requests \ {p} : KeepsEntriesOf(q)]_vars

\* request 1 wrote an entry and was escalated after request 2 had written its own,
\* which is in the store while that of request 1 is gone
C30_Witness ==
    /\ IdsDistinct
    /\ pc[1] = "escalated"
    /\ Written(1) # {} /\ ~(Written(1) \subseteq DOMAIN STORE)
    /\ Written(2) # {} /\ Written(2) \subseteq DOMAIN STORE
    /\ LastPut(2) < LastPut(1)


-----------------------------------------------------------------------------
(* The Reviser inside the loop *)

IsRevise(e) == e["ev"] = "revise"
Revises(h) == SelectSeq(h, IsRevise)

\* the step calls revise_search_args or revise_trip_args
Reviser == Len(Revises(log')) > Len(Revises(log))

\* position in the history h of its last revise entry
LastRevise(h) == CHOOSE i \in DOMAIN h : IsRevise(h[i]) /\ \A j \in DOMAIN h : j > i => ~IsRevise(h[j])

\* the entry before the last revise entry of h is the validation of the same attempt,
\* with a goal that was not met
AfterUnmet(h) ==
    LET i == LastRevise(h)
    IN /\ i > 1
       /\ h[i - 1] = ValidateEntry(h[i]["attempt"], "unmet")

\* one revision of the arguments a after attempt att, as the services module makes it
OneRevision(m, a, att) ==
    IF m = "search" THEN revise_search_args(a, att) ELSE revise_trip_args(a, att)

\* C31: the step that calls the Reviser follows a verdict with success = false and
\* action_ok = true, the last validation of the history; and every tool execution
\* of an attempt after the first uses one revision of the arguments of the attempt
\* before it
C31_ReviserAfterUnmet ==
    /\ [][Reviser => /\ validation'["success"] = FALSE
                     /\ validation'["action_ok"] = TRUE
                     /\ AfterUnmet(log')]_vars
    /\ [](\A n \in 2..MAX_ITERS :
            HasRun(n) => HasRun(n - 1) /\ RunOf(n)["args"] = OneRevision(mode, RunOf(n - 1)["args"], n - 1))

\* a request whose three attempts all ran, each on other arguments than the one before
C31_Witness ==
    /\ pc = "done"
    /\ HasRun(3)
    /\ RunOf(1)["args"] # RunOf(2)["args"]
    /\ RunOf(2)["args"] # RunOf(3)["args"]
    /\ Len(Revises(log)) = 2


-----------------------------------------------------------------------------
(* The rotation over the categories *)

\* the positions, in the list of categories, of the buckets the items of the
\* itinerary were picked from, in the order they were picked
PickPos ==
    LET rows == UnionRows(Itinerary)
        labels == [i \in DOMAIN Candidates |-> Candidates[i]["label"]]
    IN [k \in 1..Len(rows) |-> CHOOSE i \in DOMAIN labels : labels[i] = rows[k]["layer"]]

\* candidates taken from bucket i by the first k of the picks pos
Consumed(pos, i, k) == Cardinality({ j \in 1..k : pos[j] = i })

\* steps forward in the rotation over n categories from position p (0 before the
\* first pick) to i
Ahead(n, p, i) == (i - p - 1) % n

\* the picks pos from buckets of the given sizes are fair, and every pick is from the
\* first category after the one picked before it that has a candidate left
FairRotation(pos, sizes) ==
    LET n == Len(sizes)
        used == [k \in 0..Len(pos) |-> [i \in 1..n |-> Consumed(pos, i, k)]]
    IN /\ \A k \in 0..Len(pos) : \A i1, i2 \in 1..n :
            used[k][i1] < sizes[i1] /\ used[k][i2] < sizes[i2]
               => Abs(used[k][i1] - used[k][i2]) <= 1
       /\ \A k \in 1..Len(pos) :
            LET p == IF k = 1 THEN 0 ELSE pos[k - 1]
            IN /\ used[k - 1][pos[k]] < sizes[pos[k]]
               /\ \A i \in 1..n :
                    used[k - 1][i] < sizes[i] => Ahead(n, p, pos[k]) <= Ahead(n, p, i)

\* C32: at every point of the construction two categories that both have candidates
\* left were consumed equally often or one once more than the other, and every pick,
\* the first of a day included, is from the first category after the one picked
\* before it that has a candidate left
C32_RoundRobinFair ==
    TripRan => FairRotation(PickPos, [i \in DOMAIN Candidates |-> Len(Candidates[i]["rows"])])

\* one item a day over three days and two categories: the second day begins with
\* the second category, the third with the first again
C32_Witness ==
    /\ TripRan
    /\ Len(Candidates) = 2
    /\ PerDayAsked = 1
    /\ Len(Itinerary) = 3
    /\ PickPos = <<1, 2, 1>>


-----------------------------------------------------------------------------
(* Time labels *)

PaceAsked == GetOr(args, "pace", "standard")

\* the hour the item at index j (from 0) of a day is due at
HourAt(pace, per_day, j) ==
    (CASE pace = "relaxed" -> 10 [] pace = "standard" -> 9 [] pace = "packed" -> 8)
    + j * ((8 \div per_day) + 1)

\* two digits of an hour, then ":00"
HH00(h) ==
    (CASE h \div 10 = 0 -> "0" [] h \div 10 = 1 -> "1" [] h \div 10 = 2 -> "2" [] OTHER -> "?")
    \o (CASE h % 10 = 0 -> "0" [] h % 10 = 1 -> "1" [] h % 10 = 2 -> "2" [] h % 10 = 3 -> "3"
          [] h % 10 = 4 -> "4" [] h % 10 = 5 -> "5" [] h % 10 = 6 -> "6" [] h % 10 = 7 -> "7"
          [] h % 10 = 8 -> "8" [] OTHER -> "9")
    \o ":00"

\* the hour a label of the itinerary stands for
HourOf(label) == CHOOSE h \in 0..29 : HH00(h) = label

\* the time labels of day d, in order
Labels(d) == [j \in 1..ItemCount(d) |-> Itinerary[d]["items"][j]["time"]]

\* C33: the item at index j of a day is labelled with the hour
\* start + j * (floor(8 / per_day) + 1), start being 10, 9 or 8 for a relaxed, standard
\* or packed pace, written with two digits and ":00"; the hours of a day increase
C33_TimeLabels ==
    TripRan =>
        \A d \in DOMAIN Itinerary :
          /\ \A j \in 1..ItemCount(d) : Labels(d)[j] = HH00(HourAt(PaceAsked, PerDayAsked, j - 1))
          /\ \A j \in 2..ItemCount(d) : HourOf(Labels(d)[j - 1]) < HourOf(Labels(d)[j])

\* a packed day of four items
C33_Witness ==
    /\ TripRan
    /\ PaceAsked = "packed"
    /\ PerDayAsked = 4
    /\ Labels(1) = <<"08:00", "11:00", "14:00", "17:00">>


\* C38: every time label of an itinerary stands for an hour of the day, 0 to 23
C38_ValidHours ==
    TripRan =>
        \A d \in DOMAIN Itinerary : \A j \in 1..ItemCount(d) : HourOf(Labels(d)[j]) \in 0..23


-----------------------------------------------------------------------------
(* services._post_overpass: one backend query. attempt is the loop variable of
   range(3), log the outcomes of the HTTP attempts made, clock the milliseconds
   slept, response what the function returned or raised *)

POST_ATTEMPTS == 3
BACKOFF_MS == 1500

HttpStatus(st) == [kind |-> "http", status |-> st]
NetworkError(name) == [kind |-> "network", error |-> name]

\* what one requests.post can come to: a response with a status, or a
\* requests.RequestException that is not an HTTPError
PostOutcomes ==
    { HttpStatus(st) : st \in {200, 400, 404, 429, 500, 503, 504} }
    \cup { NetworkError(name) : name \in {"ConnectionError", "Timeout"} }

\* r.raise_for_status() raises
IsHttpError(o) == o["kind"] = "http" /\ o["status"] >= 400

\* every HTTP error status taken as one to retry after
RetryAnyStatus(st) == TRUE

\* status in (429, 504)
RetryStatus(st) == st \in {429, 504}

\* attempt < 2
HasNextPost(att) == att < POST_ATTEMPTS - 1

PostInit ==
    /\ STORE = EmptyDict
    /\ clock = 0
    /\ endpoint = "none"
    /\ pc = "post"
    /\ mode = "search"
    /\ args = EmptyDict
    /\ messages = <<>>
    /\ nudge_used = FALSE
    /\ step = 0
    /\ pending = <<>>
    /\ last_result = EmptyDict
    /\ last_reason = ""
    /\ validation = EmptyDict
    /\ attempt = 0
    /\ chain = EmptyDict
    /\ response = EmptyDict
    /\ lookup = EmptyDict
    /\ log = <<>>

\* requests.post and raise_for_status of one attempt, and the except clauses
PostAttempt ==
    /\ pc = "post"
    /\ \E o \in PostOutcomes :
         /\ log' = Append(log, o)
         /\ IF ~IsHttpError(o) /\ o["kind"] = "http"
            THEN /\ response' = [returned |-> o]
                 /\ pc' = "returned"
            ELSE IF (IF o["kind"] = "http" THEN RetryStatus(o["status"]) ELSE TRUE) /\ HasNextPost(attempt)
            THEN /\ pc' = "sleep"
                 /\ UNCHANGED response
            ELSE /\ response' = [raised |-> o]
                 /\ pc' = "raised"
    /\ UNCHANGED <<STORE, clock, endpoint, mode, messages, nudge_used, step, pending, args,
                   last_result, last_reason, validation, attempt, chain, lookup>>

\* time.sleep(1.5 * (attempt + 1)); continue
PostBackoff ==
    /\ pc = "sleep"
    /\ clock' = clock + BACKOFF_MS * (attempt + 1)
    /\ attempt' = attempt + 1
    /\ pc' = "post"
    /\ UNCHANGED <<STORE, endpoint, mode, messages, nudge_used, step, pending, args, last_result,
                   last_reason, validation, chain, response, lookup, log>>

PostNext == PostAttempt \/ PostBackoff

PostSpec == PostInit /\ [][PostNext]_vars

-----------------------------------------------------------------------------
(* Retries of a backend query *)

\* an outcome after which the query may be tried again: HTTP 429 or 504, or an error
\* of the network
Transient(o) == o["kind"] = "network" \/ o["status"] \in {429, 504}

\* an HTTP error with any other status
OtherHttpError(o) == o["kind"] = "http" /\ o["status"] >= 400 /\ o["status"] \notin {429, 504}

\* the step makes an HTTP attempt after an earlier one
Retries == Len(log') > Len(log) /\ log # <<>>

\* C34: a backend query makes at most 3 HTTP attempts; an attempt after the first
\* follows an HTTP 429 or 504 or a network error; an HTTP error with another status
\* is the last attempt and is raised, so that as the first outcome it leaves the query
\* at one attempt; and a third attempt that fails is raised
C34_BackendRetries ==
    /\ [](Len(log) <= 3)
    /\ [][Retries => Transient(log[Len(log)])]_vars
    /\ [](\A i \in DOMAIN log :
            OtherHttpError(log[i]) => i = Len(log) /\ pc = "raised" /\ response = [raised |-> log[i]])
    /\ [](Len(log) = 3 /\ Transient(log[3]) => pc = "raised" /\ response = [raised |-> log[3]])

\* two transient failures were retried and the third attempt failed as well
C34_Witness ==
    /\ pc = "raised"
    /\ Len(log) = 3
    /\ log[1] = HttpStatus(429) /\ log[2] = NetworkError("Timeout") /\ log[3] = HttpStatus(504)
    /\ clock = 4500


-----------------------------------------------------------------------------
(* The stats of a bulk search *)

SearchRan == ToolRan /\ mode = "search"

\* the known categories among those asked for
KnownAsked == { c \in CATEGORY_MAP : \E i \in DOMAIN GetOr(args, "categories", <<>>) : args["categories"][i] = c }

\* C35: the stats of a bulk search have the single key 'union' when union is true
\* and one key for each known category asked for when union is false, whatever the
\* backend queries returned
C35_StatsKeys ==
    SearchRan =>
        DOMAIN last_result["stats"] = IF GetOr(args, "union", TRUE) THEN {"union"} ELSE KnownAsked


-----------------------------------------------------------------------------
(* services.query_osm_tokyo, the loop over r.json()["elements"]: pending holds the
   elements not yet looked at, last_result the rows so far, log what each element
   came to *)

\* elements in one backend answer
MaxElements == 3

\* the elements a backend answer can hold: nodes with coordinates, with and without
\* tags; a way with a centroid only; an element with a latitude only; one with neither
ElementChoices ==
    { [type |-> "node", lat |-> 357090000, lon |-> 1397000000, tags |-> [name |-> "A", brand |-> "X"]],
      [type |-> "node", lat |-> 357180000, lon |-> 1397000000],
      [type |-> "way", center |-> [lat |-> 357045000, lon |-> 1397000000], tags |-> [name |-> "P"]],
      [type |-> "node", lat |-> 357000000, tags |-> [name |-> "B"]],
      [type |-> "relation", tags |-> [name |-> "D"]] }

RECURSIVE ElementLists(_)
ElementLists(n) ==
    IF n = 0 THEN { <<>> }
    ELSE ElementLists(n - 1)
         \cup { Append(es, e) : es \in { l \in ElementLists(n - 1) : Len(l) = n - 1 }, e \in ElementChoices }

\* lat is None or lon is None
NoCoordinate(e) == ~Has(e, "lat") \/ ~Has(e, "lon")

\* the record appended for an element with coordinates
RowOf(e) ==
    LET t == GetOr(e, "tags", EmptyDict)
    IN [k \in (DOMAIN t \cap {"name", "brand"}) |-> t[k]] @@ [lat |-> e["lat"], lon |-> e["lon"]]

ParseInit ==
    /\ STORE = EmptyDict
    /\ clock = 1
    /\ endpoint = "none"
    /\ pc = "parse"
    /\ mode = "search"
    /\ args = EmptyDict
    /\ messages = <<>>
    /\ nudge_used = FALSE
    /\ step = 0
    /\ pending \in ElementLists(MaxElements)
    /\ last_result = [rows |-> <<>>]
    /\ last_reason = ""
    /\ validation = EmptyDict
    /\ attempt = 0
    /\ chain = EmptyDict
    /\ response = EmptyDict
    /\ lookup = EmptyDict
    /\ log = <<>>

\* one iteration of the loop: the element is skipped or its record appended
ParseElement ==
    /\ pc = "parse"
    /\ pending # <<>>
    /\ LET e == Head(pending)
           rows == IF NoCoordinate(e) THEN <<>> ELSE << RowOf(e) >>
       IN /\ last_result' = [rows |-> last_result["rows"] \o rows]
          /\ log' = Append(log, [element |-> e, rows |-> rows])
    /\ pending' = Tail(pending)
    /\ UNCHANGED <<STORE, clock, endpoint, pc, mode, args, messages, nudge_used, step,
                   last_reason, validation, attempt, chain, response, lookup>>

\* return rows
ParseReturn ==
    /\ pc = "parse"
    /\ pending = <<>>
    /\ response' = last_result
    /\ pc' = "returned"
    /\ UNCHANGED <<STORE, clock, endpoint, mode, args, messages, nudge_used, step, pending,
                   last_result, last_reason, validation, attempt, chain, lookup, log>>

ParseNext == ParseElement \/ ParseReturn

ParseSpec == ParseInit /\ [][ParseNext]_vars

-----------------------------------------------------------------------------
(* Parsing backend elements *)

HasCentroid(e) == Has(e, "center")

\* C36: an element without coordinates of its own but with a centroid yields one
\* record at the centroid; an element with neither yields none; every other element
\* yields one record at its coordinates
C36_ElementParsing ==
    \A i \in DOMAIN log :
       LET e == log[i]["element"]
           rows == log[i]["rows"]
       IN IF ~NoCoordinate(e)
          THEN Len(rows) = 1 /\ rows[1]["lat"] = e["lat"] /\ rows[1]["lon"] = e["lon"]
          ELSE IF HasCentroid(e)
          THEN Len(rows) = 1 /\ rows[1]["lat"] = e["center"]["lat"] /\ rows[1]["lon"] = e["center"]["lon"]
          ELSE rows = <<>>


-----------------------------------------------------------------------------
(* Rejected actions *)

\* the step is a validation that ends the request
VerdictEnds == pc = "validate" /\ pc' = "done"

\* the step is a validation with the verdict action_ok = false
Rejects == pc = "validate" /\ validation'["action_ok"] = FALSE

\* C37: a validation with action_ok = false escalates whatever its success says: the
\* answer asks for review with success = false and the id of the result is out of the
\* store; and a request is answered with success = true only by a validation with
\* success = true and action_ok = true
C37_RejectedNeverSucceeds ==
    /\ [][Rejects => /\ pc' = "done"
                     /\ Escalated'
                     /\ response'["success"] = FALSE
                     /\ Has(last_result, "store_id") => last_result["store_id"] \notin DOMAIN STORE']_vars
    /\ [][VerdictEnds /\ Finalized' => validation'["success"] /\ validation'["action_ok"]]_vars
    /\ [](Finalized => validation # EmptyDict /\ validation["success"] /\ validation["action_ok"])

\* a request escalated on a verdict that says success
C37_Witness ==
    /\ pc = "done"
    /\ Escalated
    /\ validation["success"] /\ ~validation["action_ok"]
    /\ ~response["success"]
    /\ last_result["store_id"] \notin DOMAIN STORE


-----------------------------------------------------------------------------
(* The fallback validator on a filled itinerary *)

\* the fallback validator judged an itinerary of the clamped number of days, every
\* day holding the clamped per_day items
JudgedFilled ==
    /\ pc = "fn_validated"
    /\ mode = "trip"
    /\ Len(Itinerary) = DaysAsked
    /\ \A d \in DOMAIN Itinerary : ItemCount(d) = PerDayAsked

\* C39: the fallback validator judges a completely filled itinerary a success, for
\* every days and per_day a caller can pass
C39_FilledSucceeds == JudgedFilled => validation["success"]


-----------------------------------------------------------------------------
(* What the itinerary takes from the buckets *)

\* the items of all days in the order they were scheduled, as rows
Scheduled == UnionRows(Itinerary)

\* the rows scheduled from category c, in order
ScheduledFrom(c) == SelectSeq(Scheduled, LAMBDA r : r["layer"] = c)

\* the scheduled row it is the candidate r of category c
IsCandidate(it, r, c) ==
    /\ it["lat"] = r["lat"]
    /\ it["lon"] = r["lon"]
    /\ it["name"] = GetOr(r, "name", Title(c))
    /\ it["layer"] = r["layer"]

\* C40: no candidate, an entry of a bucket, is scheduled twice, and the items of a
\* category are, over all days and in order, the first candidates of its bucket
C40_BucketPrefix ==
    TripRan =>
        /\ \A k1, k2 \in DOMAIN Scheduled : Scheduled[k1] = Scheduled[k2] => k1 = k2
        /\ \A i \in DOMAIN Candidates :
             LET c == Candidates[i]["label"]
                 rows == Candidates[i]["rows"]
                 its == ScheduledFrom(c)
             IN /\ Len(its) <= Len(rows)
                /\ \A j \in DOMAIN its : IsCandidate(its[j], rows[j], c)
        /\ \A k \in DOMAIN Scheduled : \E i \in DOMAIN Candidates : Candidates[i]["label"] = Scheduled[k]["layer"]

\* three days of two items from two buckets: a part of each bucket is scheduled, and
\* the place found for both categories once from each
C40_Witness ==
    /\ TripRan
    /\ Len(Candidates) = 2
    /\ Len(Itinerary) = 3
    /\ Len(Scheduled) = 6
    /\ Len(ScheduledFrom("cafe")) = 3 /\ Len(ScheduledFrom("park")) = 3
    /\ \E k1, k2 \in DOMAIN Scheduled :
         /\ Scheduled[k1]["layer"] = "cafe" /\ Scheduled[k2]["layer"] = "park"
         /\ Scheduled[k1]["name"] = "B" /\ Scheduled[k2]["name"] = "B"
         /\ Scheduled[k1]["lat"] = Scheduled[k2]["lat"]

=============================================================================
